---- MODULE Spec2Model ----
(***************************************************************************)
(* Model of agent-manager: the interactive worktree lifecycle orchestrator *)
(* (src/src/main.rs), the git repository handle (src/src/git.rs) and the   *)
(* template engine (src/src/templates.rs).                                 *)
(*                                                                         *)
(* Text is modelled as a sequence of one-character strings, so that the    *)
(* string functions of the program (trim, lines, strip_prefix, replace,    *)
(* the placeholder regex) are computed and not assumed.  An Option<T> is a *)
(* sequence of length 0 (None) or 1 (Some).  A Result is a record with an  *)
(* ok field.  External processes (git, the agent, the editor, lazygit) and *)
(* the interactive prompts are inputs: their exit status and answers are   *)
(* chosen with \E in the action that runs them.                            *)
(***************************************************************************)
EXTENDS Integers, Sequences, FiniteSets, TLC

\* ------------------------------------------------------------------ text

None == <<>>
Some(x) == <<x>>
IsSome(o) == Len(o) = 1
Unwrap(o) == o[1]

UpperAlpha ==
    <<"A", "B", "C", "D", "E", "F", "G", "H", "I", "J", "K", "L", "M",
      "N", "O", "P", "Q", "R", "S", "T", "U", "V", "W", "X", "Y", "Z">>
LowerAlpha ==
    <<"a", "b", "c", "d", "e", "f", "g", "h", "i", "j", "k", "l", "m",
      "n", "o", "p", "q", "r", "s", "t", "u", "v", "w", "x", "y", "z">>
DigitChars == {"0", "1", "2", "3", "4", "5", "6", "7", "8", "9"}
Whitespace == {" ", "\t", "\n", "\r"}

IsUpper(c) == \E i \in DOMAIN UpperAlpha : UpperAlpha[i] = c
IsLower(c) == \E i \in DOMAIN LowerAlpha : LowerAlpha[i] = c

to_ascii_lowercase(c) ==
    IF IsUpper(c)
    THEN LowerAlpha[CHOOSE i \in DOMAIN UpperAlpha : UpperAlpha[i] = c]
    ELSE c

is_ascii_alphanumeric(c) == IsUpper(c) \/ IsLower(c) \/ c \in DigitChars

Drop(s, n) == SubSeq(s, n + 1, Len(s))
Take(s, n) == SubSeq(s, 1, n)

starts_with(s, p) == Len(s) >= Len(p) /\ Take(s, Len(p)) = p
ends_with(s, p) == Len(s) >= Len(p) /\ Drop(s, Len(s) - Len(p)) = p

\* str::strip_prefix: the rest after the prefix, or None
strip_prefix(s, p) == IF starts_with(s, p) THEN Some(Drop(s, Len(p))) ELSE None

\* first index at which pat occurs in s, 0 when it does not occur
RECURSIVE FindFrom(_, _, _)
FindFrom(s, pat, i) ==
    IF i + Len(pat) - 1 > Len(s) THEN 0
    ELSE IF SubSeq(s, i, i + Len(pat) - 1) = pat THEN i
    ELSE FindFrom(s, pat, i + 1)
Find(s, pat) == FindFrom(s, pat, 1)

contains(s, pat) == Find(s, pat) # 0

\* str::replacen(pat, by, 1): the first occurrence only
replacen1(s, pat, by) ==
    LET i == Find(s, pat)
    IN  IF i = 0 THEN s ELSE Take(s, i - 1) \o by \o Drop(s, i + Len(pat) - 1)

\* str::replace: every non-overlapping occurrence, left to right
RECURSIVE replace(_, _, _)
replace(s, pat, by) ==
    LET i == Find(s, pat)
    IN  IF i = 0
        THEN s
        ELSE Take(s, i - 1) \o by \o replace(Drop(s, i + Len(pat) - 1), pat, by)

RECURSIVE trim_start(_)
trim_start(s) == IF s # <<>> /\ s[1] \in Whitespace THEN trim_start(Tail(s)) ELSE s
RECURSIVE trim_end(_)
trim_end(s) ==
    IF s # <<>> /\ s[Len(s)] \in Whitespace THEN trim_end(Take(s, Len(s) - 1)) ELSE s
trim(s) == trim_end(trim_start(s))

RECURSIVE trim_matches(_, _)
trim_matches(s, c) ==
    IF s # <<>> /\ s[1] = c THEN trim_matches(Tail(s), c)
    ELSE IF s # <<>> /\ s[Len(s)] = c THEN trim_matches(Take(s, Len(s) - 1), c)
    ELSE s

\* str::lines: split at "\n" (a "\r" before it goes too); a final empty line
\* is not a line
StripCr(l) == IF ends_with(l, <<"\r">>) THEN Take(l, Len(l) - 1) ELSE l
RECURSIVE lines(_)
lines(text) ==
    IF text = <<>> THEN <<>>
    ELSE LET i == Find(text, <<"\n">>)
         IN  IF i = 0 THEN <<StripCr(text)>>
             ELSE <<StripCr(Take(text, i - 1))>> \o lines(Drop(text, i))

\* ---------------------------------------------------------------- naming

FEATURE == <<"f", "e", "a", "t", "u", "r", "e">>

\* the loop, were a dash pushed for every other character
RECURSIVE SanitizeLoopEveryChar(_, _, _, _)
SanitizeLoopEveryChar(input, i, slug, last_dash) ==
    IF i > Len(input) THEN slug
    ELSE LET lower == to_ascii_lowercase(input[i])
         IN  IF is_ascii_alphanumeric(lower) \/ lower \in {"-", "_"}
             THEN SanitizeLoopEveryChar(input, i + 1, Append(slug, lower), lower = "-")
             ELSE SanitizeLoopEveryChar(input, i + 1, Append(slug, "-"), TRUE)

\* sanitize_name, lines 516-532: the loop over input.chars()
RECURSIVE SanitizeLoop(_, _, _, _)
SanitizeLoop(input, i, slug, last_dash) ==
    IF i > Len(input) THEN slug
    ELSE LET lower == to_ascii_lowercase(input[i])
         IN  IF is_ascii_alphanumeric(lower)
             THEN SanitizeLoop(input, i + 1, Append(slug, lower), FALSE)
             ELSE IF lower \in {"-", "_"}
             THEN SanitizeLoop(input, i + 1, Append(slug, lower), lower = "-")
             ELSE IF ~last_dash
             THEN SanitizeLoop(input, i + 1, Append(slug, "-"), TRUE)
             ELSE SanitizeLoop(input, i + 1, slug, last_dash)

\* sanitize_name without the fallback for an empty slug
SanitizeNoFallback(input) == trim_matches(SanitizeLoop(input, 1, <<>>, FALSE), "-")

\* sanitize_name without the trimming of the dashes at both ends
SanitizeUntrimmed(input) ==
    LET slug == SanitizeLoop(input, 1, <<>>, FALSE)
    IN  IF slug = <<>> THEN FEATURE ELSE slug

sanitize_name(input) ==
    LET trimmed == trim_matches(SanitizeLoop(input, 1, <<>>, FALSE), "-")
    IN  IF trimmed = <<>> THEN FEATURE ELSE trimmed

\* ----------------------------------------------------------------- paths

\* Path::join of a relative component
Join(p, c) == IF ends_with(p, <<"/">>) THEN p \o c ELSE p \o <<"/">> \o c

LastSlash(p) == CHOOSE i \in DOMAIN p : p[i] = "/" /\ \A j \in DOMAIN p : p[j] = "/" => j <= i

\* Path::parent of an absolute path: None for the filesystem root
Parent(p) ==
    IF p = <<"/">> THEN None
    ELSE IF LastSlash(p) = 1 THEN Some(<<"/">>)
    ELSE Some(Take(p, LastSlash(p) - 1))

\* Path::file_name
FileName(p) == IF p = <<"/">> THEN None ELSE Some(Drop(p, LastSlash(p)))

\* ---------------------------------------------------------- configuration

\* Config::default
Config ==
    [agent_command |-> <<"c", "o", "d", "e", "x">>,
     agent_args |-> << <<"{", "t", "e", "m", "p", "l", "a", "t", "e", "_",
                         "c", "o", "n", "t", "e", "n", "t", "}">> >>,
     merge_target |-> <<"m", "a", "i", "n">>,
     template_editor |-> <<"v", "i", "m">>,
     worktree_base_override |-> None]

\* GitRepo { root, name } as GitRepo::discover leaves it
Repo == [root |-> <<"/", "r">>, name |-> Unwrap(FileName(<<"/", "r">>))]

WORKTREE_AGENTS == <<"-", "w", "o", "r", "k", "t", "r", "e", "e", "-",
                      "a", "g", "e", "n", "t", "s">>
REPO_NAME == <<"{", "r", "e", "p", "o", "_", "n", "a", "m", "e", "}">>
REPO_ROOT == <<"{", "r", "e", "p", "o", "_", "r", "o", "o", "t", "}">>

\* GitRepo::worktree_base: Ok(path) or Err
worktree_base(repo, cfg) ==
    IF IsSome(cfg.worktree_base_override)
    THEN [ok |-> TRUE,
          val |-> replace(replace(Unwrap(cfg.worktree_base_override),
                                  REPO_NAME, repo.name),
                          REPO_ROOT, repo.root)]
    ELSE IF Parent(repo.root) = None
    THEN [ok |-> FALSE, val |-> <<>>]
    ELSE [ok |-> TRUE,
          val |-> Join(Unwrap(Parent(repo.root)), repo.name \o WORKTREE_AGENTS)]

\* ------------------------------------------------- the world and its log
(***************************************************************************)
(* A world w is what the program acts on: the repository (branches, the    *)
(* linked worktrees in git's listing order, the branch HEAD of the root is *)
(* on), the directories that exist with the two files the program reads    *)
(* and writes per worktree, and the log of what the running flow did.      *)
(***************************************************************************)

Ev(op, arg, ok) == [op |-> op, arg |-> arg, ok |-> ok]
Logged(w, e) == [w EXCEPT !.log = Append(@, e)]

NoFiles == [template |-> None, exclude |-> None]

\* std::fs::create_dir_all: the directory and its missing parents
create_dir_all(w, dir, ok) ==
    IF ~ok THEN [w |-> Logged(w, Ev("create_dir_all", dir, FALSE)), ok |-> FALSE]
    ELSE [w |-> Logged([w EXCEPT !.fs = IF dir \in DOMAIN w.fs THEN w.fs
                                        ELSE (dir :> NoFiles) @@ w.fs],
                       Ev("create_dir_all", dir, TRUE)),
          ok |-> TRUE]

\* -------------------------------------------------------------- git.rs

WorktreePaths(w) == {w.worktrees[i].path : i \in DOMAIN w.worktrees}

\* the listed worktrees without the one at path
RECURSIVE WithoutPath(_, _)
WithoutPath(wts, path) ==
    IF wts = <<>> THEN <<>>
    ELSE IF Head(wts).path = path THEN WithoutPath(Tail(wts), path)
    ELSE <<Head(wts)>> \o WithoutPath(Tail(wts), path)

\* GitRepo::create_worktree: git worktree add -b <branch> <dir> <base>.
\* exit is the exit status git gives when the command can succeed; git fails
\* when the branch exists, the base is unknown or the directory exists.
create_worktree(w, branch_name, target_dir, base_branch, exit) ==
    LET good == /\ exit
                /\ branch_name \notin w.branches
                /\ base_branch \in w.branches
                /\ target_dir \notin DOMAIN w.fs
        parent == Unwrap(Parent(target_dir))
        made == (target_dir :> NoFiles) @@
                (IF parent \in DOMAIN w.fs THEN w.fs ELSE (parent :> NoFiles) @@ w.fs)
    IN  IF good
        THEN [w |-> Logged([w EXCEPT
                              !.branches = @ \cup {branch_name},
                              !.worktrees = Append(@, [path |-> target_dir,
                                                       branch |-> Some(branch_name),
                                                       locked |-> FALSE]),
                              !.fs = made],
                           Ev("git worktree add", target_dir, TRUE)),
              ok |-> TRUE]
        ELSE [w |-> Logged(w, Ev("git worktree add", target_dir, FALSE)), ok |-> FALSE]

\* GitRepo::remove_worktree: git worktree remove [--force] <dir>
remove_worktree(w, target_dir, force, exit) ==
    LET op == IF force THEN "git worktree remove --force" ELSE "git worktree remove"
        good == exit /\ target_dir \in WorktreePaths(w)
    IN  IF good
        THEN [w |-> Logged([w EXCEPT
                              !.worktrees = WithoutPath(@, target_dir),
                              !.fs = [d \in DOMAIN @ \ {target_dir} |-> @[d]]],
                           Ev(op, target_dir, TRUE)),
              ok |-> TRUE]
        ELSE [w |-> Logged(w, Ev(op, target_dir, FALSE)), ok |-> FALSE]

\* GitRepo::delete_branch: git branch -d|-D <branch>
delete_branch(w, branch, force, exit) ==
    LET op == IF force THEN "git branch -D" ELSE "git branch -d"
        good == exit /\ branch \in w.branches
    IN  IF good
        THEN [w |-> Logged([w EXCEPT !.branches = @ \ {branch}], Ev(op, branch, TRUE)),
              ok |-> TRUE]
        ELSE [w |-> Logged(w, Ev(op, branch, FALSE)), ok |-> FALSE]

\* GitRepo::checkout_branch: git checkout <branch>
checkout_branch(w, branch, exit) ==
    IF exit /\ branch \in w.branches
    THEN [w |-> Logged([w EXCEPT !.head = Some(branch)], Ev("git checkout", branch, TRUE)),
          ok |-> TRUE]
    ELSE [w |-> Logged(w, Ev("git checkout", branch, FALSE)), ok |-> FALSE]

HEAD == <<"H", "E", "A", "D">>

\* what git rev-parse --abbrev-ref HEAD prints
RevParseOutput(w) == (IF w.head = None THEN HEAD ELSE Unwrap(w.head)) \o <<"\n">>

\* GitRepo::current_branch.  st: "err" git could not be run, "fail" non-zero
\* exit status, "ok".  Ok(None) | Ok(Some(name)) | Err
current_branch(w, st) ==
    IF st = "err"
    THEN [w |-> Logged(w, Ev("git rev-parse", <<>>, FALSE)), ok |-> FALSE, val |-> None]
    ELSE IF st = "fail"
    THEN [w |-> Logged(w, Ev("git rev-parse", <<>>, FALSE)), ok |-> TRUE, val |-> None]
    ELSE LET trimmed == trim(RevParseOutput(w))
         IN  [w |-> Logged(w, Ev("git rev-parse", IF trimmed = HEAD THEN <<>> ELSE trimmed, TRUE)),
              ok |-> TRUE,
              val |-> IF trimmed = HEAD THEN None ELSE Some(trimmed)]

\* git merge --no-ff <source> in the root
GitMerge(w, source_branch, exit) ==
    IF exit /\ source_branch \in w.branches
    THEN [w |-> Logged(w, Ev("git merge --no-ff", source_branch, TRUE)), ok |-> TRUE]
    ELSE [w |-> Logged(w, Ev("git merge --no-ff", source_branch, FALSE)), ok |-> FALSE]

\* merge_branch with no checkout of the target when HEAD is detached
MergeBranchDetachedInPlace(w, source_branch, target_branch, o) ==
    LET cur == current_branch(w, o.cur)
        current == cur.val
        c1 == IF current # Some(target_branch) /\ IsSome(current)
              THEN checkout_branch(cur.w, target_branch, o.co1)
              ELSE [w |-> cur.w, ok |-> TRUE]
        m == GitMerge(c1.w, source_branch, o.mg)
    IN  IF ~cur.ok THEN [w |-> cur.w, ok |-> FALSE]
        ELSE IF ~c1.ok THEN [w |-> c1.w, ok |-> FALSE]
        ELSE IF ~m.ok THEN [w |-> m.w, ok |-> FALSE]
        ELSE IF current # Some(target_branch) /\ IsSome(current)
        THEN checkout_branch(m.w, Unwrap(current), o.co2)
        ELSE [w |-> m.w, ok |-> TRUE]

\* merge_branch with the target checked out even when the root is on it
MergeBranchAlwaysCheckout(w, source_branch, target_branch, o) ==
    LET cur == current_branch(w, o.cur)
        current == cur.val
        c1 == checkout_branch(cur.w, target_branch, o.co1)
        m == GitMerge(c1.w, source_branch, o.mg)
    IN  IF ~cur.ok THEN [w |-> cur.w, ok |-> FALSE]
        ELSE IF ~c1.ok THEN [w |-> c1.w, ok |-> FALSE]
        ELSE IF ~m.ok THEN [w |-> m.w, ok |-> FALSE]
        ELSE IF current # Some(target_branch) /\ IsSome(current)
        THEN checkout_branch(m.w, Unwrap(current), o.co2)
        ELSE [w |-> m.w, ok |-> TRUE]

\* GitRepo::merge_branch.  o: the outcomes of the four git commands
merge_branch(w, source_branch, target_branch, o) ==
    LET cur == current_branch(w, o.cur)
        current == cur.val
        c1 == IF current # Some(target_branch)
              THEN checkout_branch(cur.w, target_branch, o.co1)
              ELSE [w |-> cur.w, ok |-> TRUE]
        m == GitMerge(c1.w, source_branch, o.mg)
    IN  IF ~cur.ok THEN [w |-> cur.w, ok |-> FALSE]
        ELSE IF ~c1.ok THEN [w |-> c1.w, ok |-> FALSE]
        ELSE IF ~m.ok THEN [w |-> m.w, ok |-> FALSE]
        ELSE IF current # Some(target_branch) /\ IsSome(current)
        THEN checkout_branch(m.w, Unwrap(current), o.co2)
        ELSE [w |-> m.w, ok |-> TRUE]

\* A step that fails ends merge_branch, so the exit statuses of the later
\* commands are never read: one representative (all later ones succeed) is kept.
MergeOutcomes ==
    {o \in [cur : {"err", "fail", "ok"}, co1 : BOOLEAN, mg : BOOLEAN, co2 : BOOLEAN] :
        /\ Cardinality({x \in {"co1", "mg", "co2"} : ~o[x]}) <= 1
        /\ o.cur = "err" => o.co1 /\ o.mg /\ o.co2}

\* ---------------------------------------------------------- templates.rs

TEMPLATE_FILENAME ==
    <<".", "a", "g", "e", "n", "t", "-", "t", "e", "m", "p", "l", "a", "t", "e">>
PROJECT_TEMPLATES_DIR ==
    <<".", "a", "g", "e", "n", "t", "-", "t", "e", "m", "p", "l", "a", "t", "e", "s">>

\* ConfigState.templates_dir
TemplatesDir == <<"/", "c", "/", "t">>

\* the characters of the model in code order, to compare paths as sort does
Ascii ==
    <<"\t", "\n", "\r", " ", "!", "#", "$", "-", ".", "/">> \o
    <<"0", "1", "2", "3", "4", "5", "6", "7", "8", "9", ":", "<", ">", "?">> \o
    UpperAlpha \o <<"[", "]", "_">> \o LowerAlpha \o <<"{", "}">>
Code(c) == CHOOSE i \in DOMAIN Ascii : Ascii[i] = c

RECURSIVE TextLess(_, _)
TextLess(a, b) ==
    IF b = <<>> THEN FALSE
    ELSE IF a = <<>> THEN TRUE
    ELSE IF a[1] = b[1] THEN TextLess(Tail(a), Tail(b))
    ELSE Code(a[1]) < Code(b[1])

\* Vec::sort of a set of paths
RECURSIVE Sorted(_)
Sorted(S) ==
    IF S = {} THEN <<>>
    ELSE LET least == CHOOSE x \in S : \A y \in S \ {x} : TextLess(x, y)
         IN  <<least>> \o Sorted(S \ {least})

(***************************************************************************)
(* A directory as read_dir sees it is None (it does not exist) or Some set *)
(* of entries [name, is_file].  store is what the two template directories *)
(* hold when they are read: [project, global, readable].                   *)
(***************************************************************************)

\* collect_templates: Ok(sorted paths of the direct file entries) or Err
collect_templates(dir, listing, readable) ==
    IF listing = None THEN [ok |-> TRUE, val |-> <<>>]
    ELSE IF ~readable THEN [ok |-> FALSE, val |-> <<>>]
    ELSE [ok |-> TRUE,
          val |-> Sorted({Join(dir, e.name) : e \in {x \in Unwrap(listing) : x.is_file}})]

\* project_templates: Ok(None) | Ok(Some(paths)) | Err
project_templates(project_root, store) ==
    LET project_templates_dir == Join(project_root, PROJECT_TEMPLATES_DIR)
        templates == collect_templates(project_templates_dir, store.project, store.readable)
    IN  IF store.project = None THEN [ok |-> TRUE, val |-> None]
        ELSE IF ~templates.ok THEN [ok |-> FALSE, val |-> None]
        ELSE IF templates.val = <<>> THEN [ok |-> TRUE, val |-> None]
        ELSE [ok |-> TRUE, val |-> Some(templates.val)]

\* available_templates, were the global files added to the project's
AvailableTemplatesMixed(templates_dir, project_root, store) ==
    LET pt == project_templates(project_root, store)
        global == collect_templates(templates_dir, store.global, store.readable)
    IN  IF ~pt.ok \/ ~global.ok THEN [ok |-> FALSE, val |-> <<>>]
        ELSE IF IsSome(pt.val) THEN [ok |-> TRUE, val |-> Unwrap(pt.val) \o global.val]
        ELSE global
\* available_templates
available_templates(templates_dir, project_root, store) ==
    LET pt == project_templates(project_root, store)
    IN  IF ~pt.ok THEN [ok |-> FALSE, val |-> <<>>]
        ELSE IF IsSome(pt.val) THEN [ok |-> TRUE, val |-> Unwrap(pt.val)]
        ELSE collect_templates(templates_dir, store.global, store.readable)

\* ui::skim_select.  pick: what the widget gives back, [ok |-> FALSE] when
\* it cannot be built, else val = None (abort, nothing selected) or
\* Some(i), the 0-based place of the item the user selected.  The index
\* returned is the first place whose display text equals the selected one.
Display(item) == replace(item, <<"\n">>, <<" ">>)
skim_select(items, pick) ==
    IF items = <<>> THEN [ok |-> TRUE, val |-> None]
    ELSE IF ~pick.ok THEN [ok |-> FALSE, val |-> None]
    ELSE IF pick.val = None THEN [ok |-> TRUE, val |-> None]
    ELSE LET value == Display(items[Unwrap(pick.val) + 1])
             idx == CHOOSE i \in DOMAIN items :
                        /\ Display(items[i]) = value
                        /\ \A j \in DOMAIN items : Display(items[j]) = value => i <= j
         IN  [ok |-> TRUE, val |-> Some(idx - 1)]

Picks(n) ==
    {[ok |-> FALSE, val |-> None], [ok |-> TRUE, val |-> None]}
        \cup {[ok |-> TRUE, val |-> Some(i)] : i \in 0..(n - 1)}

\* choose_template up to the selection: Err, Ok(None), Ok(Some(path)), or
\* the selection is to be asked among templates ("ask")
choose_template(templates_dir, project_root, store) ==
    LET templates == available_templates(templates_dir, project_root, store)
    IN  IF ~templates.ok THEN [ok |-> FALSE, ask |-> FALSE, val |-> None, templates |-> <<>>]
        ELSE IF templates.val = <<>>
        THEN [ok |-> TRUE, ask |-> FALSE, val |-> None, templates |-> <<>>]
        ELSE IF Len(templates.val) = 1
        THEN [ok |-> TRUE, ask |-> FALSE, val |-> Some(templates.val[1]),
              templates |-> templates.val]
        ELSE [ok |-> TRUE, ask |-> TRUE, val |-> None, templates |-> templates.val]

\* choose_template from the selection on: the items are the file names
TemplateItems(templates) == [i \in DOMAIN templates |-> Unwrap(FileName(templates[i]))]
choose_template_selected(templates, pick) ==
    LET selection == skim_select(TemplateItems(templates), pick)
    IN  IF ~selection.ok THEN [ok |-> FALSE, val |-> None]
        ELSE IF selection.val = None THEN [ok |-> TRUE, val |-> None]
        ELSE [ok |-> TRUE, val |-> Some(templates[Unwrap(selection.val) + 1])]

\* the regex \$\{([^}]+)\}: where the match starting at i ends, 0 for none
NextClose(content, from) ==
    LET at == {j \in from..Len(content) : content[j] = "}"}
    IN  IF at = {} THEN 0 ELSE CHOOSE j \in at : \A k \in at : j <= k
\* the match of a pattern that does not ask for the closing brace
MatchAtUnclosed(content, i) ==
    IF i + 2 <= Len(content) /\ content[i] = "$" /\ content[i + 1] = "{"
          /\ content[i + 2] # "}"
    THEN LET j == NextClose(content, i + 2) IN IF j > 0 THEN j - 1 ELSE Len(content)
    ELSE 0
MatchAt(content, i) ==
    IF i + 1 <= Len(content) /\ content[i] = "$" /\ content[i + 1] = "{"
    THEN LET j == NextClose(content, i + 2) IN IF j > i + 2 THEN j ELSE 0
    ELSE 0

\* Regex::captures_iter: the non-overlapping matches from i on, left to right
RECURSIVE captures_iter(_, _)
captures_iter(content, i) ==
    IF i > Len(content) THEN <<>>
    ELSE IF MatchAt(content, i) = 0 THEN captures_iter(content, i + 1)
    ELSE <<[start |-> i, end |-> MatchAt(content, i)]>>
             \o captures_iter(content, MatchAt(content, i) + 1)

\* caps.get(1) trimmed
CapName(content, m) == trim(SubSeq(content, m.start + 2, m.end - 1))

\* render_template, lines 101-114: the keys to prompt for
RECURSIVE PromptsLoop(_, _, _, _)
PromptsLoop(content, caps, auto_keys, prompts) ==
    IF caps = <<>> THEN prompts
    ELSE LET name == CapName(content, Head(caps))
         IN  IF name = <<>> \/ name \in auto_keys
                \/ \E k \in DOMAIN prompts : prompts[k] = name
             THEN PromptsLoop(content, Tail(caps), auto_keys, prompts)
             ELSE PromptsLoop(content, Tail(caps), auto_keys, Append(prompts, name))
\* the keys to prompt for, the automatic ones not left out
RenderPromptsAll(content, auto_variables) ==
    PromptsLoop(content, captures_iter(content, 1), {}, <<>>)
render_prompts(content, auto_variables) ==
    PromptsLoop(content, captures_iter(content, 1), DOMAIN auto_variables, <<>>)

\* Regex::replace_all with the closure of lines 138-146
RECURSIVE ReplaceAll(_, _, _, _)
ReplaceAll(content, caps, from, values) ==
    IF caps = <<>> THEN SubSeq(content, from, Len(content))
    ELSE LET m == Head(caps)
             key == CapName(content, m)
             by == IF key \in DOMAIN values THEN values[key]
                   ELSE SubSeq(content, m.start, m.end)
         IN  SubSeq(content, from, m.start - 1) \o by
                 \o ReplaceAll(content, Tail(caps), m.end + 1, values)

\* render_template, were the rendered text rendered once more
RenderTemplateTwice(content, auto_variables, answers) ==
    LET values == answers @@ auto_variables
        once == ReplaceAll(content, captures_iter(content, 1), 1, values)
    IN  IF render_prompts(content, auto_variables) = <<>> /\ DOMAIN auto_variables = {}
        THEN content
        ELSE ReplaceAll(once, captures_iter(once, 1), 1, values)
\* render_template, given the answers to its prompts (a function of the
\* prompted keys)
render_template(content, auto_variables, answers) ==
    IF render_prompts(content, auto_variables) = <<>> /\ DOMAIN auto_variables = {}
    THEN content
    ELSE ReplaceAll(content, captures_iter(content, 1), 1, answers @@ auto_variables)

\* ensure_template_ignored without the test of the lines already there
EnsureTemplateIgnoredAlways(w, worktree, o) ==
    LET existing == IF w.fs[worktree].exclude = None THEN <<>>
                    ELSE Unwrap(w.fs[worktree].exclude)
        appended ==
            (IF existing # <<>> /\ ~ends_with(existing, <<"\n">>)
             THEN existing \o <<"\n">> ELSE existing)
                \o TEMPLATE_FILENAME \o <<"\n">>
    IN  IF ~o.gitdir \/ ~o.io \/ worktree \notin DOMAIN w.fs
        THEN [w |-> Logged(w, Ev("exclude", worktree, FALSE)), ok |-> FALSE]
        ELSE [w |-> Logged([w EXCEPT !.fs[worktree].exclude = Some(appended)],
                           Ev("exclude", worktree, TRUE)),
              ok |-> TRUE]

\* ensure_template_ignored.  o.gitdir: the git directory of the worktree is
\* resolved; o.io: the exclude file can be read and appended to
ensure_template_ignored(w, worktree, o) ==
    LET existing == IF w.fs[worktree].exclude = None THEN <<>>
                    ELSE Unwrap(w.fs[worktree].exclude)
        alt_pattern == <<".", "/">> \o TEMPLATE_FILENAME
        ls == lines(existing)
        already_present ==
            \E i \in DOMAIN ls :
                trim(ls[i]) = TEMPLATE_FILENAME \/ trim(ls[i]) = alt_pattern
        appended ==
            (IF existing # <<>> /\ ~ends_with(existing, <<"\n">>)
             THEN existing \o <<"\n">> ELSE existing)
                \o TEMPLATE_FILENAME \o <<"\n">>
    IN  IF ~o.gitdir \/ ~o.io \/ worktree \notin DOMAIN w.fs
        THEN [w |-> Logged(w, Ev("exclude", worktree, FALSE)), ok |-> FALSE]
        ELSE IF already_present
        THEN [w |-> w, ok |-> TRUE]
        ELSE [w |-> Logged([w EXCEPT !.fs[worktree].exclude = Some(appended)],
                           Ev("exclude", worktree, TRUE)),
              ok |-> TRUE]

\* ------------------------------------------------- git.rs: list_worktrees

WORKTREE_ == <<"w", "o", "r", "k", "t", "r", "e", "e", " ">>
BRANCH_ == <<"b", "r", "a", "n", "c", "h", " ">>
LOCKED == <<"l", "o", "c", "k", "e", "d">>
REFS_HEADS == <<"r", "e", "f", "s", "/", "h", "e", "a", "d", "s", "/">>

\* one record of git worktree list --porcelain
PorcelainRecord(path, branch, locked) ==
    WORKTREE_ \o path \o <<"\n">>
        \o <<"H", "E", "A", "D", " ", "0", "\n">>
        \o (IF branch = None THEN <<"d", "e", "t", "a", "c", "h", "e", "d", "\n">>
            ELSE BRANCH_ \o REFS_HEADS \o Unwrap(branch) \o <<"\n">>)
        \o (IF locked THEN LOCKED \o <<"\n">> ELSE <<>>)
        \o <<"\n">>

RECURSIVE PorcelainLinked(_)
PorcelainLinked(wts) ==
    IF wts = <<>> THEN <<>>
    ELSE PorcelainRecord(Head(wts).path, Head(wts).branch, Head(wts).locked)
             \o PorcelainLinked(Tail(wts))

\* what git worktree list --porcelain prints: the root first
Porcelain(w, root) == PorcelainRecord(root, w.head, FALSE) \o PorcelainLinked(w.worktrees)

\* the loop of list_worktrees without the flush at the end of the input
RECURSIVE ParseLoopNoFlush(_, _, _, _, _)
ParseLoopNoFlush(ls, wts, cur_path, cur_branch, locked) ==
    IF ls = <<>>
    THEN wts
    ELSE LET line == Head(ls)
         IN  IF line = <<>>
             THEN IF IsSome(cur_path)
                  THEN ParseLoopNoFlush(Tail(ls),
                                        Append(wts, [path |-> Unwrap(cur_path),
                                                     branch |-> cur_branch,
                                                     locked |-> locked]),
                                        None, None, FALSE)
                  ELSE ParseLoopNoFlush(Tail(ls), wts, cur_path, cur_branch, locked)
             ELSE IF IsSome(strip_prefix(line, WORKTREE_))
             THEN ParseLoopNoFlush(Tail(ls), wts,
                                   Some(Unwrap(strip_prefix(line, WORKTREE_))),
                                   cur_branch, locked)
             ELSE IF IsSome(strip_prefix(line, BRANCH_))
             THEN ParseLoopNoFlush(Tail(ls), wts, cur_path,
                                   Some(replacen1(trim(Unwrap(strip_prefix(line, BRANCH_))),
                                                  REFS_HEADS, <<>>)),
                                   locked)
             ELSE IF starts_with(line, LOCKED)
             THEN ParseLoopNoFlush(Tail(ls), wts, cur_path, cur_branch, TRUE)
             ELSE ParseLoopNoFlush(Tail(ls), wts, cur_path, cur_branch, locked)

\* list_worktrees, lines 74-109: the loop over text.lines() and the flush
RECURSIVE ParseLoop(_, _, _, _, _)
ParseLoop(ls, wts, cur_path, cur_branch, locked) ==
    IF ls = <<>>
    THEN IF IsSome(cur_path)
         THEN Append(wts, [path |-> Unwrap(cur_path),
                           branch |-> cur_branch, locked |-> locked])
         ELSE wts
    ELSE LET line == Head(ls)
         IN  IF line = <<>>
             THEN IF IsSome(cur_path)
                  THEN ParseLoop(Tail(ls),
                                 Append(wts, [path |-> Unwrap(cur_path),
                                              branch |-> cur_branch,
                                              locked |-> locked]),
                                 None, None, FALSE)
                  ELSE ParseLoop(Tail(ls), wts, cur_path, cur_branch, locked)
             ELSE IF IsSome(strip_prefix(line, WORKTREE_))
             THEN ParseLoop(Tail(ls), wts, Some(Unwrap(strip_prefix(line, WORKTREE_))),
                            cur_branch, locked)
             ELSE IF IsSome(strip_prefix(line, BRANCH_))
             THEN ParseLoop(Tail(ls), wts, cur_path,
                            Some(replacen1(trim(Unwrap(strip_prefix(line, BRANCH_))),
                                           REFS_HEADS, <<>>)),
                            locked)
             ELSE IF starts_with(line, LOCKED)
             THEN ParseLoop(Tail(ls), wts, cur_path, cur_branch, TRUE)
             ELSE ParseLoop(Tail(ls), wts, cur_path, cur_branch, locked)

ParseWorktrees(text) == ParseLoop(lines(text), <<>>, None, None, FALSE)

\* GitRepo::list_worktrees.  st: "err" git could not be run, "fail" non-zero
\* exit status, "ok"
list_worktrees(w, root, st) ==
    IF st # "ok"
    THEN [w |-> Logged(w, Ev("git worktree list", <<>>, FALSE)), ok |-> FALSE, val |-> <<>>]
    ELSE [w |-> Logged(w, Ev("git worktree list", <<>>, TRUE)),
          ok |-> TRUE,
          val |-> ParseWorktrees(Porcelain(w, root))]

\* App::filtered_worktrees, given what list_worktrees returned
filtered_worktrees(listed, root) ==
    LET NotRoot(wt) == wt.path # root
    IN  [w |-> listed.w, ok |-> listed.ok,
         val |-> IF listed.ok THEN SelectSeq(listed.val, NotRoot) ELSE <<>>]

DETACHED == <<"<", "d", "e", "t", "a", "c", "h", "e", "d", ">">>

\* worktree_label
worktree_label(worktree) ==
    (IF worktree.branch = None THEN DETACHED ELSE Unwrap(worktree.branch))
        \o <<" ", "-", " ">> \o worktree.path
        \o (IF worktree.locked
            THEN <<" ", "[", "l", "o", "c", "k", "e", "d", "]">> ELSE <<>>)

\* App::pick_worktree: the selection among the labels
pick_worktree(wts, pick) == skim_select([i \in DOMAIN wts |-> worktree_label(wts[i])], pick)

\* ------------------------------------------------------------ main.rs: App
(***************************************************************************)
(* The program waits at one prompt at a time.  pc names the prompt it      *)
(* waits at ("menu", "nf_branch_name", ...), or "returned" (the flow of    *)
(* this menu iteration returned Ok to the loop of App::run), or how main   *)
(* ended: "exit_ok" (run returned Ok) or "exit_err" (an Err reached main:  *)
(* the error is printed and the process exits with status 1).  One action  *)
(* answers the pending prompt and runs the code up to the next prompt or   *)
(* return.  flow is the menu entry that was chosen last, loc the local     *)
(* variables of the running flow, log what this menu iteration did, in     *)
(* order: it is emptied when the loop starts its next iteration.           *)
(***************************************************************************)
VARIABLES pc, flow, loc, branches, worktrees, head, fs, log

vars == <<pc, flow, loc, branches, worktrees, head, fs, log>>

World == [branches |-> branches, worktrees |-> worktrees, head |-> head,
          fs |-> fs, log |-> log]

MAIN == <<"m", "a", "i", "n">>
DEV == <<"d", "e", "v">>

\* what the user may type at the text prompts
BranchNameInputs == {<<" ">>, <<"a">>, <<"A", " ">>}
FeatureInputs == {<<" ">>, <<"f">>}
BaseBranchInputs == {MAIN, <<"x">>}
ValueInputs == {<<>>, <<"v">>}

\* dialoguer Input::interact_text and Confirm::interact: Ok(value) or Err
TextAnswers(S) == {[ok |-> FALSE, val |-> <<>>]} \cup {[ok |-> TRUE, val |-> t] : t \in S}
ConfirmAnswers == {[ok |-> FALSE, val |-> FALSE]} \cup {[ok |-> TRUE, val |-> b] : b \in BOOLEAN}

\* what the template directories may hold when they are read
FileA == [name |-> <<"a">>, is_file |-> TRUE]
FileB == [name |-> <<"b">>, is_file |-> TRUE]
FileD == [name |-> <<"d">>, is_file |-> TRUE]
SubDir == [name |-> <<"s">>, is_file |-> FALSE]
TemplateStores ==
    {[project |-> None, global |-> Some({}), readable |-> TRUE],
     [project |-> None, global |-> None, readable |-> TRUE],
     [project |-> None, global |-> Some({FileD}), readable |-> TRUE],
     [project |-> Some({SubDir}), global |-> Some({FileD}), readable |-> TRUE],
     [project |-> Some({FileA}), global |-> None, readable |-> TRUE],
     [project |-> Some({FileA, FileB, SubDir}), global |-> Some({FileD}), readable |-> TRUE],
     [project |-> Some({FileA}), global |-> Some({FileD}), readable |-> FALSE]}

\* the text of the template files
TemplateText(path) ==
    IF FileName(path) = Some(<<"a">>)
    THEN <<"$", "{", "f", "e", "a", "t", "u", "r", "e", "}", " ", "$", "{", "w", "}">>
    ELSE IF FileName(path) = Some(<<"b">>)
    THEN <<"$", "{", " ", "}", "$", "{", "w", "}", "$", "{", " ", "w", "}">>
    ELSE <<"x">>

Loc0 ==
    [branch_name |-> <<>>, feature_description |-> <<>>, worktree_dir |-> <<>>,
     templates |-> <<>>, raw |-> <<>>, prompts |-> <<>>, answers |-> <<>>,
     local_template |-> <<>>, listing |-> <<>>, branch |-> None]

\* how an action ends: at the menu (the flow returned Ok), with the error
\* in main, or at the next prompt
Returned(w) == [w |-> w, pc |-> "returned", loc |-> Loc0]
Failed(w) == [w |-> w, pc |-> "exit_err", loc |-> Loc0]
Ask(w, prompt, l) == [w |-> Logged(w, Ev("prompt", <<prompt>>, TRUE)), pc |-> prompt, loc |-> l]

\* the answer given to the pending prompt, as the log keeps it: the text
\* typed, "y" or "n", the item selected (nothing when the selection is
\* aborted); ok is FALSE when the prompt itself failed
HeardText(w, answer) == Logged(w, Ev("answer", answer.val, answer.ok))
HeardConfirm(w, answer) ==
    Logged(w, Ev("answer", IF ~answer.ok THEN <<>> ELSE IF answer.val THEN <<"y">> ELSE <<"n">>,
                 answer.ok))
HeardPick(w, items, pick) ==
    Logged(w, Ev("answer",
                 IF pick.ok /\ IsSome(pick.val) THEN items[Unwrap(pick.val) + 1] ELSE <<>>,
                 pick.ok))
Labels(wts) == [i \in DOMAIN wts |-> worktree_label(wts[i])]

\* the next state is the one the code reached: r is computed once
Commit(result) ==
    \E r \in {result} :
        /\ pc' = r.pc
        /\ loc' = r.loc
        /\ branches' = r.w.branches
        /\ worktrees' = r.w.worktrees
        /\ head' = r.w.head
        /\ fs' = r.w.fs
        /\ log' = r.w.log

KEY_FEATURE == <<"f", "e", "a", "t", "u", "r", "e">>
KEY_BRANCH == <<"b", "r", "a", "n", "c", "h">>

\* new_feature_flow, lines 152-157
automatic_variables(l) ==
    (KEY_FEATURE :> trim(l.feature_description)) @@ (KEY_BRANCH :> l.branch_name)

\* edit_template.  o.exit: the editor ran and exited with status 0;
\* o.edited: it rewrote the file
EDITED == <<"e", "d">>
edit_template(w, worktree, o) ==
    LET w1 == IF o.edited /\ worktree \in DOMAIN w.fs
              THEN [w EXCEPT !.fs[worktree].template = Some(EDITED)] ELSE w
    IN  [w |-> Logged(w1, Ev("editor", worktree, o.exit)), ok |-> o.exit]

EditOutcomes == [exit : BOOLEAN, edited : BOOLEAN]

\* App::run_agent.  o.read: the template file can be read; o.status: "err"
\* the agent could not be launched, "nonzero", "zero" its exit status
run_agent(w, worktree_dir, branch, o) ==
    IF ~o.read \/ worktree_dir \notin DOMAIN w.fs \/ w.fs[worktree_dir].template = None
    THEN [w |-> Logged(w, Ev("read template", worktree_dir, FALSE)), ok |-> FALSE]
    ELSE IF o.status = "err"
    THEN [w |-> Logged(w, Ev("agent launch", worktree_dir, FALSE)), ok |-> FALSE]
    ELSE IF o.status = "nonzero"
    THEN [w |-> Logged(w, Ev("agent", worktree_dir, FALSE)), ok |-> FALSE]
    ELSE [w |-> Logged(w, Ev("agent", worktree_dir, TRUE)), ok |-> TRUE]

\* the placeholders of the configured arguments, lines 272-281
PH_TEMPLATE == <<"{", "t", "e", "m", "p", "l", "a", "t", "e", "}">>
PH_WORKTREE == <<"{", "w", "o", "r", "k", "t", "r", "e", "e", "}">>
PH_BRANCH == <<"{", "b", "r", "a", "n", "c", "h", "}">>
PH_TEMPLATE_CONTENT ==
    <<"{", "t", "e", "m", "p", "l", "a", "t", "e", "_", "c", "o", "n", "t", "e", "n", "t", "}">>

\* arg.replace(..).replace(..).replace(..).replace(..), lines 277-280
substitute_arg(arg, template_str, worktree_str, branch, template_content) ==
    replace(replace(replace(replace(arg, PH_TEMPLATE, template_str),
                            PH_WORKTREE, worktree_str),
                    PH_BRANCH, branch),
            PH_TEMPLATE_CONTENT, template_content)

\* lines 269-275
uses_template_placeholder(agent_args) ==
    \E i \in DOMAIN agent_args :
        contains(agent_args[i], PH_TEMPLATE) \/ contains(agent_args[i], PH_TEMPLATE_CONTENT)

\* the command, were the template content appended whatever the arguments
AgentCommandAlwaysAppends(agent_args, worktree_dir, branch, template, template_content) ==
    [args |-> [i \in DOMAIN agent_args |->
                  substitute_arg(agent_args[i], template, worktree_dir, branch,
                                 template_content)] \o <<template_content>>,
     current_dir |-> worktree_dir,
     env |-> [AGENT_TEMPLATE_PATH |-> template,
              AGENT_WORKTREE_PATH |-> worktree_dir,
              AGENT_BRANCH_NAME |-> branch,
              AGENT_TEMPLATE_CONTENT |-> template_content]]
\* the command run_agent builds, lines 263-295: its arguments, its
\* directory and the environment variables it adds
agent_command(agent_args, worktree_dir, branch, template, template_content) ==
    [args |-> [i \in DOMAIN agent_args |->
                  substitute_arg(agent_args[i], template, worktree_dir, branch,
                                 template_content)]
              \o (IF uses_template_placeholder(agent_args) THEN <<>>
                  ELSE <<template_content>>),
     current_dir |-> worktree_dir,
     env |-> [AGENT_TEMPLATE_PATH |-> template,
              AGENT_WORKTREE_PATH |-> worktree_dir,
              AGENT_BRANCH_NAME |-> branch,
              AGENT_TEMPLATE_CONTENT |-> template_content]]

AgentOutcomes ==
    {o \in [read : BOOLEAN, status : {"err", "nonzero", "zero"}] :
        ~o.read => o.status = "zero"}

\* the editor, then the agent: when the editor fails the agent is not run
EditAgentOutcomes ==
    {o \in [edit : EditOutcomes, agent : AgentOutcomes] :
        ~o.edit.exit => o.agent = [read |-> TRUE, status |-> "zero"]}

\* App::open_lazygit.  status as for the agent
open_lazygit(w, worktree, status) ==
    IF status = "err"
    THEN [w |-> Logged(w, Ev("lazygit launch", worktree, FALSE)), ok |-> FALSE]
    ELSE [w |-> Logged(w, Ev("lazygit", worktree, status = "zero")), ok |-> status = "zero"]

\* ---- new_feature_flow

\* lines 89-97
NfBranchName(w, l, answer) ==
    IF ~answer.ok THEN Failed(w)
    ELSE IF trim(answer.val) = <<>> THEN Returned(w)
    ELSE Ask(w, "nf_feature", [l EXCEPT !.branch_name = trim(answer.val)])

\* lines 99-105 with the description tested before it is trimmed
NfFeatureUntrimmed(w, l, answer) ==
    IF ~answer.ok THEN Failed(w)
    ELSE IF answer.val = <<>> THEN Returned(w)
    ELSE Ask(w, "nf_base", [l EXCEPT !.feature_description = answer.val])

\* lines 99-105
NfFeature(w, l, answer) ==
    IF ~answer.ok THEN Failed(w)
    ELSE IF trim(answer.val) = <<>> THEN Returned(w)
    ELSE Ask(w, "nf_base", [l EXCEPT !.feature_description = answer.val])

\* the rollback with the error of the removal propagated
NfRollbackChecked(w, l, o) ==
    LET r1 == remove_worktree(w, l.worktree_dir, TRUE, o.rm)
        r2 == delete_branch(r1.w, l.branch_name, TRUE, o.br)
    IN  IF ~r1.ok THEN Failed(r1.w) ELSE Returned(r2.w)

\* lines 146-148: the compensating rollback
NfRollback(w, l, o) ==
    LET r1 == remove_worktree(w, l.worktree_dir, TRUE, o.rm)
        r2 == delete_branch(r1.w, l.branch_name, TRUE, o.br)
    IN  Returned(r2.w)

\* the same without the registration in the exclude list
NfMaterializeUnregistered(w, l, o) ==
    LET rendered == render_template(l.raw, automatic_variables(l), l.answers)
        written == Logged([w EXCEPT !.fs[l.worktree_dir].template = Some(rendered)],
                          Ev("write template", l.worktree_dir, TRUE))
    IN  IF ~o.write \/ l.worktree_dir \notin DOMAIN w.fs
        THEN Failed(Logged(w, Ev("write template", l.worktree_dir, FALSE)))
        ELSE Ask(written, "nf_edit",
                 [l EXCEPT !.local_template = Join(l.worktree_dir, TEMPLATE_FILENAME)])

\* copy_template_to_worktree, lines 74-81, and lines 165-174: the rendered
\* template is written, registered, and the edit is offered
NfMaterialize(w, l, o) ==
    LET rendered == render_template(l.raw, automatic_variables(l), l.answers)
        written == Logged([w EXCEPT !.fs[l.worktree_dir].template = Some(rendered)],
                          Ev("write template", l.worktree_dir, TRUE))
        ign == ensure_template_ignored(written, l.worktree_dir, o.ign)
    IN  IF ~o.write \/ l.worktree_dir \notin DOMAIN w.fs
        THEN Failed(Logged(w, Ev("write template", l.worktree_dir, FALSE)))
        ELSE IF ~ign.ok THEN Failed(ign.w)
        ELSE Ask(ign.w, "nf_edit",
                 [l EXCEPT !.local_template = Join(l.worktree_dir, TEMPLATE_FILENAME)])

\* copy_template_to_worktree, lines 70-73 and render_template, lines 100-135:
\* the template is read and its first value asked for
NfCopy(w, l, template_path, o) ==
    LET raw == TemplateText(template_path)
        prompts == render_prompts(raw, automatic_variables(l))
        l1 == [l EXCEPT !.raw = raw, !.prompts = prompts, !.answers = <<>>]
    IN  IF ~o.read THEN Failed(Logged(w, Ev("read template", template_path, FALSE)))
        ELSE IF prompts # <<>>
        THEN Ask(Logged(w, Ev("read template", template_path, TRUE)), "nf_value", l1)
        ELSE NfMaterialize(Logged(w, Ev("read template", template_path, TRUE)), l1, o)

\* lines 107-150 with the worktree directory created in place of the base
NfBaseCreatesTarget(w, l, answer, o) ==
    LET slug == sanitize_name(l.branch_name)
        wb == worktree_base(Repo, Config)
        worktree_dir == Join(wb.val, slug)
        mk == create_dir_all(w, worktree_dir, o.mkdir)
        exists == worktree_dir \in DOMAIN mk.w.fs
        cw == create_worktree(Logged(mk.w, Ev("exists", worktree_dir, FALSE)),
                              l.branch_name, worktree_dir, answer.val, o.add)
        l1 == [l EXCEPT !.worktree_dir = worktree_dir]
        ct == choose_template(TemplatesDir, Repo.root, o.store)
    IN  IF ~answer.ok THEN Failed(w)
        ELSE IF ~wb.ok THEN Failed(w)
        ELSE IF ~mk.ok THEN Failed(mk.w)
        ELSE IF exists THEN Failed(Logged(mk.w, Ev("exists", worktree_dir, TRUE)))
        ELSE IF ~cw.ok THEN Failed(cw.w)
        ELSE IF ~ct.ok THEN Failed(Logged(cw.w, Ev("list templates", <<>>, FALSE)))
        ELSE IF ct.ask THEN Ask(cw.w, "nf_template", [l1 EXCEPT !.templates = ct.templates])
        ELSE IF ct.val = None THEN NfRollback(Logged(cw.w, Ev("template", <<>>, FALSE)), l1, o)
        ELSE NfCopy(Logged(cw.w, Ev("template", Unwrap(ct.val), TRUE)), l1, Unwrap(ct.val), o)

\* lines 107-150 without the test that the target directory exists
NfBaseUnchecked(w, l, answer, o) ==
    LET slug == sanitize_name(l.branch_name)
        wb == worktree_base(Repo, Config)
        mk == create_dir_all(w, wb.val, o.mkdir)
        worktree_dir == Join(wb.val, slug)
        cw == create_worktree(Logged(mk.w, Ev("exists", worktree_dir, FALSE)),
                              l.branch_name, worktree_dir, answer.val, o.add)
        l1 == [l EXCEPT !.worktree_dir = worktree_dir]
        ct == choose_template(TemplatesDir, Repo.root, o.store)
    IN  IF ~answer.ok THEN Failed(w)
        ELSE IF ~wb.ok THEN Failed(w)
        ELSE IF ~mk.ok THEN Failed(mk.w)
        ELSE IF ~cw.ok THEN Failed(cw.w)
        ELSE IF ~ct.ok THEN Failed(Logged(cw.w, Ev("list templates", <<>>, FALSE)))
        ELSE IF ct.ask THEN Ask(cw.w, "nf_template", [l1 EXCEPT !.templates = ct.templates])
        ELSE IF ct.val = None THEN NfRollback(Logged(cw.w, Ev("template", <<>>, FALSE)), l1, o)
        ELSE NfCopy(Logged(cw.w, Ev("template", Unwrap(ct.val), TRUE)), l1, Unwrap(ct.val), o)

\* lines 107-150
NfBase(w, l, answer, o) ==
    LET slug == sanitize_name(l.branch_name)
        wb == worktree_base(Repo, Config)
        mk == create_dir_all(w, wb.val, o.mkdir)
        worktree_dir == Join(wb.val, slug)
        exists == worktree_dir \in DOMAIN mk.w.fs
        cw == create_worktree(Logged(mk.w, Ev("exists", worktree_dir, FALSE)),
                              l.branch_name, worktree_dir, answer.val, o.add)
        l1 == [l EXCEPT !.worktree_dir = worktree_dir]
        ct == choose_template(TemplatesDir, Repo.root, o.store)
    IN  IF ~answer.ok THEN Failed(w)
        ELSE IF ~wb.ok THEN Failed(w)
        ELSE IF ~mk.ok THEN Failed(mk.w)
        ELSE IF exists THEN Failed(Logged(mk.w, Ev("exists", worktree_dir, TRUE)))
        ELSE IF ~cw.ok THEN Failed(cw.w)
        ELSE IF ~ct.ok THEN Failed(Logged(cw.w, Ev("list templates", <<>>, FALSE)))
        ELSE IF ct.ask THEN Ask(cw.w, "nf_template", [l1 EXCEPT !.templates = ct.templates])
        ELSE IF ct.val = None THEN NfRollback(Logged(cw.w, Ev("template", <<>>, FALSE)), l1, o)
        ELSE NfCopy(Logged(cw.w, Ev("template", Unwrap(ct.val), TRUE)), l1, Unwrap(ct.val), o)

\* lines 139-150 from the selection on
NfTemplate(w, l, pick, o) ==
    LET sel == choose_template_selected(l.templates, pick)
    IN  IF ~sel.ok THEN Failed(w)
        ELSE IF sel.val = None THEN NfRollback(Logged(w, Ev("template", <<>>, FALSE)), l, o)
        ELSE NfCopy(Logged(w, Ev("template", Unwrap(sel.val), TRUE)), l, Unwrap(sel.val), o)

\* render_template, lines 129-135: one value is given
NfValue(w, l, answer, o) ==
    LET l1 == [l EXCEPT !.answers = (Head(l.prompts) :> answer.val) @@ l.answers,
                        !.prompts = Tail(l.prompts)]
    IN  IF ~answer.ok THEN Failed(w)
        ELSE IF l1.prompts # <<>> THEN Ask(w, "nf_value", l1)
        ELSE NfMaterialize(w, l1, o)

\* lines 171-187 with the worktree and the branch removed when the editor fails
NfEditRollsBack(w, l, answer, o) ==
    LET ed == IF answer.val THEN edit_template(w, l.worktree_dir, o.edit)
              ELSE [w |-> w, ok |-> TRUE]
        ag == run_agent(ed.w, l.worktree_dir, l.branch_name, o.agent)
        r1 == remove_worktree(ed.w, l.worktree_dir, TRUE, TRUE)
        r2 == delete_branch(r1.w, l.branch_name, TRUE, TRUE)
    IN  IF ~answer.ok THEN Failed(w)
        ELSE IF ~ed.ok THEN Failed(r2.w)
        ELSE IF ~ag.ok THEN Failed(ag.w)
        ELSE Ask(ag.w, "nf_lazygit", l)

\* lines 171-187 up to the review prompt
NfEdit(w, l, answer, o) ==
    LET ed == IF answer.val THEN edit_template(w, l.worktree_dir, o.edit)
              ELSE [w |-> w, ok |-> TRUE]
        ag == run_agent(ed.w, l.worktree_dir, l.branch_name, o.agent)
    IN  IF ~answer.ok THEN Failed(w)
        ELSE IF ~ed.ok THEN Failed(ed.w)
        ELSE IF ~ag.ok THEN Failed(ag.w)
        ELSE Ask(ag.w, "nf_lazygit", l)

\* lines 181-195
NfLazygit(w, l, answer, o) ==
    LET lg == IF answer.val THEN open_lazygit(w, l.worktree_dir, o.status)
              ELSE [w |-> w, ok |-> TRUE]
    IN  IF ~answer.ok THEN Failed(w)
        ELSE IF ~lg.ok THEN Failed(lg.w)
        ELSE Ask(lg.w, "nf_merge", l)

\* lines 189-214 with the merge run whatever the answer
NfMergeUnasked(w, l, answer, o) ==
    LET mg == merge_branch(w, l.branch_name, Config.merge_target, o.merge)
    IN  IF ~answer.ok THEN Failed(w)
        ELSE Ask(mg.w, "nf_remove", l)

\* lines 189-214
NfMerge(w, l, answer, o) ==
    LET mg == IF answer.val THEN merge_branch(w, l.branch_name, Config.merge_target, o.merge)
              ELSE [w |-> w, ok |-> TRUE]
    IN  IF ~answer.ok THEN Failed(w)
        ELSE Ask(mg.w, "nf_remove", l)

\* lines 211-234
NfRemove(w, l, answer, o) ==
    LET rm == remove_worktree(w, l.worktree_dir, FALSE, o.exit)
    IN  IF ~answer.ok THEN Failed(w)
        ELSE IF ~answer.val THEN Returned(w)
        ELSE IF ~rm.ok THEN Ask(rm.w, "nf_force_remove", l)
        ELSE Ask(rm.w, "nf_delete_branch", l)

\* lines 222-234 with the flow ended when the forced removal is declined
NfForceRemoveAborts(w, l, answer, o) ==
    LET rm == remove_worktree(w, l.worktree_dir, TRUE, o.exit)
    IN  IF ~answer.ok THEN Failed(w)
        ELSE IF ~answer.val THEN Returned(w)
        ELSE IF ~rm.ok THEN Failed(rm.w)
        ELSE Ask(rm.w, "nf_delete_branch", l)

\* lines 222-234
NfForceRemove(w, l, answer, o) ==
    LET rm == IF answer.val THEN remove_worktree(w, l.worktree_dir, TRUE, o.exit)
              ELSE [w |-> w, ok |-> TRUE]
    IN  IF ~answer.ok THEN Failed(w)
        ELSE IF ~rm.ok THEN Failed(rm.w)
        ELSE Ask(rm.w, "nf_delete_branch", l)

\* lines 231-253
NfDeleteBranch(w, l, answer, o) ==
    LET del == delete_branch(w, l.branch_name, FALSE, o.exit)
    IN  IF ~answer.ok THEN Failed(w)
        ELSE IF ~answer.val THEN Returned(w)
        ELSE IF ~del.ok THEN Ask(del.w, "nf_force_branch", l)
        ELSE Returned(del.w)

\* lines 242-253
NfForceBranch(w, l, answer, o) ==
    LET del == IF answer.val THEN delete_branch(w, l.branch_name, TRUE, o.exit)
               ELSE [w |-> w, ok |-> TRUE]
    IN  IF ~answer.ok THEN Failed(w)
        ELSE IF ~del.ok THEN Failed(del.w)
        ELSE Returned(del.w)

\* ---- start_existing_workflow

\* lines 317-339 without the return when the cached template is missing
SePickNoReturn(w, l, pick, o) ==
    LET selection == pick_worktree(l.listing, pick)
        worktree == l.listing[Unwrap(selection.val) + 1]
        cached_template == Join(worktree.path, TEMPLATE_FILENAME)
        exists == worktree.path \in DOMAIN w.fs /\ w.fs[worktree.path].template # None
        ign == ensure_template_ignored(Logged(w, Ev("exists", cached_template, exists)),
                                       worktree.path, o.ign)
    IN  IF ~selection.ok THEN Failed(w)
        ELSE IF selection.val = None THEN Returned(w)
        ELSE IF ~ign.ok THEN Failed(ign.w)
        ELSE Ask(ign.w, "se_edit",
                 [l EXCEPT !.worktree_dir = worktree.path,
                           !.branch = worktree.branch,
                           !.local_template = Join(worktree.path, TEMPLATE_FILENAME)])

\* lines 317-339
SePick(w, l, pick, o) ==
    LET selection == pick_worktree(l.listing, pick)
        worktree == l.listing[Unwrap(selection.val) + 1]
        cached_template == Join(worktree.path, TEMPLATE_FILENAME)
        exists == worktree.path \in DOMAIN w.fs /\ w.fs[worktree.path].template # None
        ign == ensure_template_ignored(Logged(w, Ev("exists", cached_template, TRUE)),
                                       worktree.path, o.ign)
    IN  IF ~selection.ok THEN Failed(w)
        ELSE IF selection.val = None THEN Returned(w)
        ELSE IF ~exists THEN Returned(Logged(w, Ev("exists", cached_template, FALSE)))
        ELSE IF ~ign.ok THEN Failed(ign.w)
        ELSE Ask(ign.w, "se_edit",
                 [l EXCEPT !.worktree_dir = worktree.path,
                           !.branch = worktree.branch,
                           !.local_template = Join(worktree.path, TEMPLATE_FILENAME)])

\* lines 336-345 followed by the review prompt of the new-feature flow
SeEditThenReview(w, l, answer, o) ==
    LET ed == IF answer.val THEN edit_template(w, l.worktree_dir, o.edit)
              ELSE [w |-> w, ok |-> TRUE]
        branch == IF l.branch = None THEN DETACHED ELSE Unwrap(l.branch)
        ag == run_agent(ed.w, l.worktree_dir, branch, o.agent)
    IN  IF ~answer.ok THEN Failed(w)
        ELSE IF ~ed.ok THEN Failed(ed.w)
        ELSE IF ~ag.ok THEN Failed(ag.w)
        ELSE Ask(ag.w, "nf_lazygit", [l EXCEPT !.branch_name = branch])

\* lines 336-345
SeEdit(w, l, answer, o) ==
    LET ed == IF answer.val THEN edit_template(w, l.worktree_dir, o.edit)
              ELSE [w |-> w, ok |-> TRUE]
        branch == IF l.branch = None THEN DETACHED ELSE Unwrap(l.branch)
        ag == run_agent(ed.w, l.worktree_dir, branch, o.agent)
    IN  IF ~answer.ok THEN Failed(w)
        ELSE IF ~ed.ok THEN Failed(ed.w)
        ELSE IF ~ag.ok THEN Failed(ag.w)
        ELSE Returned(ag.w)

\* ---- merge_existing_worktree

\* lines 358-375
MePick(w, l, pick) ==
    LET selection == pick_worktree(l.listing, pick)
        worktree == l.listing[Unwrap(selection.val) + 1]
    IN  IF ~selection.ok THEN Failed(w)
        ELSE IF selection.val = None THEN Returned(w)
        ELSE IF worktree.branch = None THEN Failed(w)
        ELSE Ask(w, "me_confirm", [l EXCEPT !.branch = worktree.branch])

\* lines 369-387
MeConfirm(w, l, answer, o) ==
    LET mg == merge_branch(w, Unwrap(l.branch), Config.merge_target, o.merge)
    IN  IF ~answer.ok THEN Failed(w)
        ELSE IF ~answer.val THEN Returned(w)
        ELSE IF ~mg.ok THEN Failed(mg.w)
        ELSE Returned(mg.w)

\* ---- delete_worktree

\* lines 400-411
DePick(w, l, pick) ==
    LET selection == pick_worktree(l.listing, pick)
        worktree == l.listing[Unwrap(selection.val) + 1]
    IN  IF ~selection.ok THEN Failed(w)
        ELSE IF selection.val = None THEN Returned(w)
        ELSE Ask(w, "de_confirm",
                 [l EXCEPT !.worktree_dir = worktree.path, !.branch = worktree.branch])

\* lines 429-433: the branch deletion is offered when there is a branch
DeOfferBranch(w, l) ==
    IF l.branch = None THEN Returned(w) ELSE Ask(w, "de_branch", l)

\* lines 408-433
DeConfirm(w, l, answer, o) ==
    LET rm == remove_worktree(w, l.worktree_dir, FALSE, o.exit)
    IN  IF ~answer.ok THEN Failed(w)
        ELSE IF ~answer.val THEN DeOfferBranch(w, l)
        ELSE IF ~rm.ok THEN Ask(rm.w, "de_force", l)
        ELSE DeOfferBranch(rm.w, l)

\* lines 419-433
DeForce(w, l, answer, o) ==
    LET rm == IF answer.val THEN remove_worktree(w, l.worktree_dir, TRUE, o.exit)
              ELSE [w |-> w, ok |-> TRUE]
    IN  IF ~answer.ok THEN Failed(w)
        ELSE IF ~rm.ok THEN Failed(rm.w)
        ELSE DeOfferBranch(rm.w, l)

\* lines 430-452
DeBranch(w, l, answer, o) ==
    LET del == delete_branch(w, Unwrap(l.branch), FALSE, o.exit)
    IN  IF ~answer.ok THEN Failed(w)
        ELSE IF ~answer.val THEN Returned(w)
        ELSE IF ~del.ok THEN Ask(del.w, "de_force_branch", l)
        ELSE Returned(del.w)

\* lines 441-452
DeForceBranch(w, l, answer, o) ==
    LET del == IF answer.val THEN delete_branch(w, Unwrap(l.branch), TRUE, o.exit)
               ELSE [w |-> w, ok |-> TRUE]
    IN  IF ~answer.ok THEN Failed(w)
        ELSE IF ~del.ok THEN Failed(del.w)
        ELSE Returned(del.w)

\* ---- view_worktree

\* lines 462-468
ViPick(w, l, pick, o) ==
    LET selection == pick_worktree(l.listing, pick)
        worktree == l.listing[Unwrap(selection.val) + 1]
        lg == open_lazygit(w, worktree.path, o.status)
    IN  IF ~selection.ok THEN Failed(w)
        ELSE IF selection.val = None THEN Returned(w)
        ELSE IF ~lg.ok THEN Failed(lg.w)
        ELSE Returned(lg.w)

\* ---- App::run: the menu

\* the flows that start by listing the worktrees, up to their selection:
\* lines 308-317, 349-358, 391-400 (filtered) and 456-462 (view: not
\* filtered).  listed is what list_worktrees returned.
ListAndPick(prompt, filtered, listed) ==
    LET worktrees_ == IF filtered THEN filtered_worktrees(listed, Repo.root) ELSE listed
    IN  IF ~worktrees_.ok THEN Failed(worktrees_.w)
        ELSE IF worktrees_.val = <<>> THEN Returned(worktrees_.w)
        ELSE Ask(worktrees_.w, prompt, [Loc0 EXCEPT !.listing = worktrees_.val])

MenuItems == <<"new_feature", "start_existing", "merge_existing", "delete", "view", "quit">>

\* lines 68-84.  listed is what list_worktrees returns in w0, for the flows
\* that call it first
RunChoice(w0, pick, listed) ==
    LET selection == skim_select([i \in DOMAIN MenuItems |-> <<MenuItems[i]>>], pick)
        choice == MenuItems[Unwrap(selection.val) + 1]
    IN  IF ~selection.ok THEN Failed(w0)
        ELSE IF selection.val = None THEN [w |-> w0, pc |-> "exit_ok", loc |-> Loc0]
        ELSE IF choice = "new_feature" THEN Ask(w0, "nf_branch_name", Loc0)
        ELSE IF choice = "start_existing" THEN ListAndPick("se_pick", TRUE, listed)
        ELSE IF choice = "merge_existing" THEN ListAndPick("me_pick", TRUE, listed)
        ELSE IF choice = "delete" THEN ListAndPick("de_pick", TRUE, listed)
        ELSE IF choice = "view" THEN ListAndPick("vi_pick", FALSE, listed)
        ELSE [w |-> w0, pc |-> "exit_ok", loc |-> Loc0]

ChosenFlow(pick) ==
    IF pick.ok /\ pick.val # None THEN MenuItems[Unwrap(pick.val) + 1] ELSE "none"

\* ------------------------------------------------------------ the actions

GitStatus == {"err", "fail", "ok"}
ProcStatus == {"err", "nonzero", "zero"}
IgnOutcomes == {o \in [gitdir : BOOLEAN, io : BOOLEAN] : o.gitdir \/ o.io}

(***************************************************************************)
(* The outcomes of the external steps an action may run.  The steps run in *)
(* sequence and the first failing one ends the flow with its error, so the *)
(* outcomes of the steps after it are never read: of the combinations that *)
(* differ only there, one representative is kept (every later step         *)
(* succeeds).  The two steps of the rollback do not end the flow and are   *)
(* free.                                                                   *)
(***************************************************************************)
CopyFailures(o) ==
    Cardinality({x \in {"read", "write"} : ~o[x]})
        + (IF o.ign = [gitdir |-> TRUE, io |-> TRUE] THEN 0 ELSE 1)

DefaultStore == [project |-> None, global |-> Some({FileD}), readable |-> TRUE]

BaseOutcomes ==
    {o \in [mkdir : BOOLEAN, add : BOOLEAN, store : TemplateStores,
            rm : BOOLEAN, br : BOOLEAN, read : BOOLEAN, write : BOOLEAN,
            ign : IgnOutcomes] :
        /\ (IF o.mkdir THEN 0 ELSE 1) + (IF o.add THEN 0 ELSE 1) + CopyFailures(o) <= 1
        /\ (~o.mkdir \/ ~o.add) => o.store = DefaultStore
        /\ (~o.rm \/ ~o.br) => o.mkdir /\ o.add /\ CopyFailures(o) = 0}

TemplateOutcomes ==
    {o \in [rm : BOOLEAN, br : BOOLEAN, read : BOOLEAN, write : BOOLEAN,
            ign : IgnOutcomes] :
        /\ CopyFailures(o) <= 1
        /\ (~o.rm \/ ~o.br) => CopyFailures(o) = 0}

ValueOutcomes ==
    {o \in [write : BOOLEAN, ign : IgnOutcomes] :
        o.write \/ o.ign = [gitdir |-> TRUE, io |-> TRUE]}

Menu ==
    /\ pc = "menu"
    /\ LET listed == [st \in GitStatus |-> list_worktrees(World, Repo.root, st)]
       IN  \E pick \in Picks(Len(MenuItems)), st \in GitStatus :
               /\ Commit(RunChoice(World, pick, listed[st]))
               /\ flow' = ChosenFlow(pick)

\* App::run, lines 47-68: the loop starts its next iteration and shows the menu
Loop ==
    /\ pc = "returned"
    /\ pc' = "menu"
    /\ log' = <<>>
    /\ UNCHANGED <<flow, loc, branches, worktrees, head, fs>>

AnswerBranchName ==
    /\ pc = "nf_branch_name"
    /\ \E answer \in TextAnswers(BranchNameInputs) : Commit(NfBranchName(HeardText(World, answer), loc, answer))
    /\ UNCHANGED flow

AnswerFeature ==
    /\ pc = "nf_feature"
    /\ \E answer \in TextAnswers(FeatureInputs) : Commit(NfFeature(HeardText(World, answer), loc, answer))
    /\ UNCHANGED flow

AnswerBase ==
    /\ pc = "nf_base"
    /\ \E answer \in TextAnswers(BaseBranchInputs),
          o \in BaseOutcomes :
        Commit(NfBase(HeardText(World, answer), loc, answer, o))
    /\ UNCHANGED flow

AnswerTemplate ==
    /\ pc = "nf_template"
    /\ \E pick \in Picks(Len(loc.templates)),
          o \in TemplateOutcomes :
        Commit(NfTemplate(HeardPick(World, TemplateItems(loc.templates), pick), loc, pick, o))
    /\ UNCHANGED flow

AnswerValue ==
    /\ pc = "nf_value"
    /\ \E answer \in TextAnswers(ValueInputs),
          o \in ValueOutcomes :
        Commit(NfValue(HeardText(World, answer), loc, answer, o))
    /\ UNCHANGED flow

AnswerEdit ==
    /\ pc = "nf_edit"
    /\ \E answer \in ConfirmAnswers, o \in EditAgentOutcomes :
        Commit(NfEdit(HeardConfirm(World, answer), loc, answer, o))
    /\ UNCHANGED flow

AnswerLazygit ==
    /\ pc = "nf_lazygit"
    /\ \E answer \in ConfirmAnswers, o \in [status : ProcStatus] :
        Commit(NfLazygit(HeardConfirm(World, answer), loc, answer, o))
    /\ UNCHANGED flow

AnswerMerge ==
    /\ pc = "nf_merge"
    /\ \E answer \in ConfirmAnswers, o \in [merge : MergeOutcomes] :
        Commit(NfMerge(HeardConfirm(World, answer), loc, answer, o))
    /\ UNCHANGED flow

AnswerRemove ==
    /\ pc = "nf_remove"
    /\ \E answer \in ConfirmAnswers, o \in [exit : BOOLEAN] :
        Commit(NfRemove(HeardConfirm(World, answer), loc, answer, o))
    /\ UNCHANGED flow

AnswerForceRemove ==
    /\ pc = "nf_force_remove"
    /\ \E answer \in ConfirmAnswers, o \in [exit : BOOLEAN] :
        Commit(NfForceRemove(HeardConfirm(World, answer), loc, answer, o))
    /\ UNCHANGED flow

AnswerDeleteBranch ==
    /\ pc = "nf_delete_branch"
    /\ \E answer \in ConfirmAnswers, o \in [exit : BOOLEAN] :
        Commit(NfDeleteBranch(HeardConfirm(World, answer), loc, answer, o))
    /\ UNCHANGED flow

AnswerForceBranch ==
    /\ pc = "nf_force_branch"
    /\ \E answer \in ConfirmAnswers, o \in [exit : BOOLEAN] :
        Commit(NfForceBranch(HeardConfirm(World, answer), loc, answer, o))
    /\ UNCHANGED flow

StartPick ==
    /\ pc = "se_pick"
    /\ \E pick \in Picks(Len(loc.listing)), o \in [ign : IgnOutcomes] :
        Commit(SePick(HeardPick(World, Labels(loc.listing), pick), loc, pick, o))
    /\ UNCHANGED flow

StartEdit ==
    /\ pc = "se_edit"
    /\ \E answer \in ConfirmAnswers, o \in EditAgentOutcomes :
        Commit(SeEdit(HeardConfirm(World, answer), loc, answer, o))
    /\ UNCHANGED flow

MergePick ==
    /\ pc = "me_pick"
    /\ \E pick \in Picks(Len(loc.listing)) : Commit(MePick(HeardPick(World, Labels(loc.listing), pick), loc, pick))
    /\ UNCHANGED flow

MergeConfirm ==
    /\ pc = "me_confirm"
    /\ \E answer \in ConfirmAnswers, o \in [merge : MergeOutcomes] :
        Commit(MeConfirm(HeardConfirm(World, answer), loc, answer, o))
    /\ UNCHANGED flow

DeletePick ==
    /\ pc = "de_pick"
    /\ \E pick \in Picks(Len(loc.listing)) : Commit(DePick(HeardPick(World, Labels(loc.listing), pick), loc, pick))
    /\ UNCHANGED flow

DeleteConfirm ==
    /\ pc = "de_confirm"
    /\ \E answer \in ConfirmAnswers, o \in [exit : BOOLEAN] :
        Commit(DeConfirm(HeardConfirm(World, answer), loc, answer, o))
    /\ UNCHANGED flow

DeleteForce ==
    /\ pc = "de_force"
    /\ \E answer \in ConfirmAnswers, o \in [exit : BOOLEAN] :
        Commit(DeForce(HeardConfirm(World, answer), loc, answer, o))
    /\ UNCHANGED flow

DeleteBranch ==
    /\ pc = "de_branch"
    /\ \E answer \in ConfirmAnswers, o \in [exit : BOOLEAN] :
        Commit(DeBranch(HeardConfirm(World, answer), loc, answer, o))
    /\ UNCHANGED flow

DeleteForceBranch ==
    /\ pc = "de_force_branch"
    /\ \E answer \in ConfirmAnswers, o \in [exit : BOOLEAN] :
        Commit(DeForceBranch(HeardConfirm(World, answer), loc, answer, o))
    /\ UNCHANGED flow

ViewPick ==
    /\ pc = "vi_pick"
    /\ \E pick \in Picks(Len(loc.listing)), o \in [status : ProcStatus] :
        Commit(ViPick(HeardPick(World, Labels(loc.listing), pick), loc, pick, o))
    /\ UNCHANGED flow

\* the state App::new is given: the repository has its integration branch
\* and one more, the root is on either or detached, and there may be a
\* locked, detached worktree the user added by hand
External == [path |-> <<"/", "e">>, branch |-> None, locked |-> TRUE]

Init ==
    /\ pc = "menu"
    /\ flow = "none"
    /\ loc = Loc0
    /\ branches = {MAIN, DEV}
    /\ head \in {Some(MAIN), Some(DEV), None}
    /\ \/ worktrees = <<>> /\ fs = <<>>
       \/ worktrees = <<External>> /\ fs = (External.path :> NoFiles)
    /\ log = <<>>

Next ==
    \/ Menu
    \/ Loop
    \/ AnswerBranchName
    \/ AnswerFeature
    \/ AnswerBase
    \/ AnswerTemplate
    \/ AnswerValue
    \/ AnswerEdit
    \/ AnswerLazygit
    \/ AnswerMerge
    \/ AnswerRemove
    \/ AnswerForceRemove
    \/ AnswerDeleteBranch
    \/ AnswerForceBranch
    \/ StartPick
    \/ StartEdit
    \/ MergePick
    \/ MergeConfirm
    \/ DeletePick
    \/ DeleteConfirm
    \/ DeleteForce
    \/ DeleteBranch
    \/ DeleteForceBranch
    \/ ViewPick

Spec == Init /\ [][Next]_vars

\* ------------------------------------------- the functions, called alone
\* A second specification calls one function of the program on one input:
\* flow names the function, loc holds the input and then the output.

Texts(chars, n) == UNION {[1..k -> chars] : k \in 0..n}
Called(fn, input) ==
    /\ pc = "call"
    /\ flow = fn
    /\ loc = [input |-> input, output |-> <<>>]
    /\ branches = {}
    /\ worktrees = <<>>
    /\ head = None
    /\ fs = <<>>
    /\ log = <<>>
Return(output) ==
    /\ pc' = "done"
    /\ loc' = [loc EXCEPT !.output = output]
    /\ UNCHANGED <<flow, branches, worktrees, head, fs, log>>

\* the texts sanitize_name is called on
MaxLen == 4
SanitizeChars == {"a", "B", "1", "-", "_", " ", "!"}
FIX_BUG == <<"F", "i", "x", " ", "B", "u", "g", " ", "#", "4", "2", "!", "!">>
SanitizeInputs == Texts(SanitizeChars, MaxLen) \cup {FIX_BUG}

CallSanitize ==
    /\ pc = "call"
    /\ flow = "sanitize"
    /\ Return(sanitize_name(loc.input))

(***************************************************************************)
(* The listings list_worktrees parses: records of lines in some order      *)
(* ("w" the worktree line, "b" the branch, "l" locked, "h" the HEAD line), *)
(* lead blank lines first, sep blank lines between two records and trail   *)
(* blank lines after the last.  Record i has the path PathOf(i).           *)
(***************************************************************************)
MaxRecords == 2
RecordOrders ==
    {<<"w">>, <<"w", "b">>, <<"b", "w">>, <<"l", "w", "b">>, <<"b", "l", "w">>,
     <<"w", "l">>, <<"h", "w">>, <<"b", "l">>, <<"h">>}
ListingInputs ==
    [records : UNION {[1..n -> RecordOrders] : n \in 0..MaxRecords},
     lead : 0..1, sep : 1..2, trail : 0..2]

PathOf(i) == <<"/">> \o [j \in 1..i |-> "p"]
BranchOf(i) == [j \in 1..i |-> "b"]
LineOf(kind, i) ==
    (CASE kind = "w" -> WORKTREE_ \o PathOf(i)
       [] kind = "b" -> BRANCH_ \o REFS_HEADS \o BranchOf(i)
       [] kind = "l" -> LOCKED
       [] OTHER -> <<"H", "E", "A", "D", " ", "0">>) \o <<"\n">>
RECURSIVE RecordText(_, _)
RecordText(order, i) ==
    IF order = <<>> THEN <<>> ELSE LineOf(Head(order), i) \o RecordText(Tail(order), i)
Blank(n) == [j \in 1..n |-> "\n"]
RECURSIVE RecordsText(_, _)
RecordsText(x, i) ==
    IF i > Len(x.records) THEN <<>>
    ELSE RecordText(x.records[i], i)
             \o Blank(IF i < Len(x.records) THEN x.sep ELSE x.trail)
             \o RecordsText(x, i + 1)
ListingText(x) == Blank(x.lead) \o RecordsText(x, 1)

CallParse ==
    /\ pc = "call"
    /\ flow = "parse"
    /\ Return(ParseWorktrees(ListingText(loc.input)))

(***************************************************************************)
(* The templates render_template is called on: up to MaxTokens pieces, a   *)
(* piece being plain text (key None) or a placeholder with its key, and    *)
(* the template and values of the scenario of the specification.           *)
(***************************************************************************)
MaxTokens == 3
KEY_W == <<"w">>
KEY_U == <<"u">>
Piece(text, key) == [text |-> text, key |-> key]
OpenPiece == Piece(<<"$", "{", "q">>, None)
Pieces ==
    {Piece(<<"$", "{">> \o KEY_FEATURE \o <<"}">>, Some(KEY_FEATURE)),
     Piece(<<"$", "{", "w", "}">>, Some(KEY_W)),
     Piece(<<"$", "{", " ", "w", " ", "}">>, Some(KEY_W)),
     Piece(<<"$", "{", "u", "}">>, Some(KEY_U)),
     Piece(<<"$", "{", " ", "}">>, Some(<<>>)),
     Piece(<<"$", "{", "}">>, None),
     Piece(<<"x">>, None),
     Piece(<<"}">>, None),
     OpenPiece}
KEY_WHO == <<"w", "h", "o">>
ADD_LOGIN == <<"A", "d", "d", " ", "l", "o", "g", "i", "n">>
ALICE == <<"a", "l", "i", "c", "e">>
Scenario ==
    [pieces |-> <<Piece(<<"T", "a", "s", "k", ":", " ">>, None),
                  Piece(<<"$", "{">> \o KEY_FEATURE \o <<"}">>, Some(KEY_FEATURE)),
                  Piece(<<"\n", "O", "w", "n", "e", "r", ":", " ">>, None),
                  Piece(<<"$", "{">> \o KEY_WHO \o <<"}">>, Some(KEY_WHO))>>,
     auto |-> (KEY_FEATURE :> ADD_LOGIN)]
RenderInputs ==
    [pieces : UNION {[1..n -> Pieces] : n \in 0..MaxTokens},
     auto : {<<>>, (KEY_FEATURE :> <<"F">>), (KEY_FEATURE :> <<"$", "{", "w", "}">>)}]
        \cup {Scenario}
\* the values typed: one of them is itself a placeholder
RenderValues == {<<>>, <<"v">>, ALICE, <<"$", "{", "u", "}">>}

RECURSIVE Flat(_)
Flat(pieces) == IF pieces = <<>> THEN <<>> ELSE Head(pieces).text \o Flat(Tail(pieces))

CallRender ==
    /\ pc = "call"
    /\ flow = "render"
    /\ LET content == Flat(loc.input.pieces)
           prompts == render_prompts(content, loc.input.auto)
       IN  \E answers \in [{prompts[i] : i \in DOMAIN prompts} -> RenderValues] :
               Return([prompts |-> prompts, answers |-> answers,
                       rendered |-> render_template(content, loc.input.auto, answers)])

(***************************************************************************)
(* The exclude files ensure_template_ignored is called on, once or more:   *)
(* no file, or up to MaxLines lines, the last one ended by a newline or    *)
(* not.  loc.output counts the calls.                                      *)
(***************************************************************************)
MaxLines == 2
MaxRegistrations == 3
DOT_SLASH == <<".", "/">>
ExcludeLines ==
    {TEMPLATE_FILENAME,
     DOT_SLASH \o TEMPLATE_FILENAME,
     <<" ">> \o TEMPLATE_FILENAME \o <<" ">>,
     TEMPLATE_FILENAME \o <<"x">>,
     <<"x">>,
     <<>>}
RECURSIVE JoinLines(_)
JoinLines(ls) ==
    IF ls = <<>> THEN <<>>
    ELSE IF Len(ls) = 1 THEN Head(ls)
    ELSE Head(ls) \o <<"\n">> \o JoinLines(Tail(ls))
ExcludeInputs ==
    {None} \cup
    {Some(JoinLines(ls) \o end) :
        ls \in UNION {[1..n -> ExcludeLines] : n \in 0..MaxLines},
        end \in {<<>>, <<"\n">>}}
SANDBOX == <<"/", "s">>

CalledRegister(x) ==
    /\ pc = "call"
    /\ flow = "register"
    /\ loc = [input |-> x, output |-> 0]
    /\ branches = {}
    /\ worktrees = <<>>
    /\ head = None
    /\ fs = (SANDBOX :> [template |-> None, exclude |-> x])
    /\ log = <<>>

CallRegister ==
    /\ pc \in {"call", "done"}
    /\ flow = "register"
    /\ loc.output < MaxRegistrations
    /\ LET r == ensure_template_ignored(World, SANDBOX, [gitdir |-> TRUE, io |-> TRUE])
       IN  /\ fs' = r.w.fs
           /\ log' = r.w.log
    /\ pc' = "done"
    /\ loc' = [loc EXCEPT !.output = @ + 1]
    /\ UNCHANGED <<flow, branches, worktrees, head>>

(***************************************************************************)
(* The template directories choose_template is called on, and what the     *)
(* selection gives back when it is asked.  Two names of FileNl and FileSp   *)
(* differ by a newline where the other has a space.                        *)
(***************************************************************************)
FileNl == [name |-> <<"n", "\n", "t">>, is_file |-> TRUE]
FileSp == [name |-> <<"n", " ", "t">>, is_file |-> TRUE]
ChooseStores ==
    [project : {None, Some({}), Some({SubDir}), Some({FileA}), Some({FileA, FileB, SubDir})},
     global : {None, Some({}), Some({FileD}), Some({FileA, FileD}),
               Some({FileD, FileNl, FileSp})},
     readable : BOOLEAN]
\* the files of a directory, as paths
FilesIn(dir, listing) ==
    IF listing = None THEN {}
    ELSE {Join(dir, e.name) : e \in {x \in Unwrap(listing) : x.is_file}}
\* the candidates: the files of the project directory, or when it has none
\* those of the global directory
Candidates(store) ==
    IF FilesIn(Join(Repo.root, PROJECT_TEMPLATES_DIR), store.project) # {}
    THEN FilesIn(Join(Repo.root, PROJECT_TEMPLATES_DIR), store.project)
    ELSE FilesIn(TemplatesDir, store.global)
ChooseInputs ==
    {x \in [store : ChooseStores, pick : Picks(3)] :
        IF Cardinality(Candidates(x.store)) < 2 \/ ~x.store.readable
        THEN x.pick = [ok |-> TRUE, val |-> None]
        ELSE x.pick.val = None \/ Unwrap(x.pick.val) < Cardinality(Candidates(x.store))}

CallChoose ==
    /\ pc = "call"
    /\ flow = "choose"
    /\ LET ct == choose_template(TemplatesDir, Repo.root, loc.input.store)
           sel == choose_template_selected(ct.templates, loc.input.pick)
       IN  IF ct.ok /\ ct.ask
           THEN Return([ok |-> sel.ok, asked |-> TRUE, val |-> sel.val])
           ELSE Return([ok |-> ct.ok, asked |-> FALSE, val |-> ct.val])

(***************************************************************************)
(* The agent command is built from the configured arguments, the worktree  *)
(* directory, the branch and the content of the template file of the       *)
(* worktree.  A branch name, a directory name and a template may hold      *)
(* braces.                                                                 *)
(***************************************************************************)
MaxArgs == 2
ArgChoices ==
    {<<"x">>, PH_TEMPLATE, PH_WORKTREE, PH_BRANCH, PH_TEMPLATE_CONTENT,
     <<"-", "p", "=">> \o PH_TEMPLATE_CONTENT,
     PH_WORKTREE \o <<":">> \o PH_BRANCH}
LaunchInputs ==
    [agent_args : UNION {[1..n -> ArgChoices] : n \in 0..MaxArgs},
     worktree_dir : {<<"/", "w">>, <<"/">> \o PH_BRANCH},
     branch : {<<"b">>, <<"b">> \o PH_TEMPLATE_CONTENT, PH_WORKTREE},
     template_content : {<<"T">>, PH_BRANCH}]

CallLaunch ==
    /\ pc = "call"
    /\ flow = "launch"
    /\ Return(agent_command(loc.input.agent_args, loc.input.worktree_dir,
                            loc.input.branch,
                            Join(loc.input.worktree_dir, TEMPLATE_FILENAME),
                            loc.input.template_content))

\* available_templates is called on what the two directories hold
CallAvailable ==
    /\ pc = "call"
    /\ flow = "available"
    /\ Return(available_templates(TemplatesDir, Repo.root, loc.input))

PureInit ==
    \/ \E x \in SanitizeInputs : Called("sanitize", x)
    \/ \E x \in ListingInputs : Called("parse", x)
    \/ \E x \in RenderInputs : Called("render", x)
    \/ \E x \in ExcludeInputs : CalledRegister(x)
    \/ \E x \in ChooseInputs : Called("choose", x)
    \/ \E x \in ChooseStores : Called("available", x)
    \/ \E x \in LaunchInputs : Called("launch", x)

PureNext ==
    \/ CallSanitize
    \/ CallParse
    \/ CallRender
    \/ CallRegister
    \/ CallChoose
    \/ CallAvailable
    \/ CallLaunch

PureSpec == PureInit /\ [][PureNext]_vars

\* ------------------------------------------------------------ properties
\* The log holds what the running flow did, in order: each prompt and the
\* answer given to it, each command, file operation and process with its
\* argument and whether it succeeded.

Last(s) == s[Len(s)]
IsPrompt(e, id) == e.op = "prompt" /\ e.arg = <<id>>
\* the answer given to the prompt id of the running flow
AnswerTo(id) == log[(CHOOSE j \in DOMAIN log : IsPrompt(log[j], id)) + 1].arg
NoneAfter(i, ops) == \A j \in DOMAIN log : j > i => log[j].op \notin ops

\* C1: in the new-feature flow, when the worktree has been created and the
\* template choice yields no template, the flow force-removes the worktree
\* just created, then force-deletes the branch just created, whatever the
\* result of either, and returns normally to the menu loop.
C1_RollbackOnNoTemplate ==
    \A i \in DOMAIN log :
        (flow = "new_feature" /\ log[i] = Ev("template", <<>>, FALSE)) =>
            LET add == log[CHOOSE j \in 1..i : log[j].op = "git worktree add"]
                name == trim(AnswerTo("nf_branch_name"))
            IN  /\ add.ok
                /\ Len(log) = i + 2
                /\ log[i + 1].op = "git worktree remove --force"
                /\ log[i + 1].arg = add.arg
                /\ log[i + 2].op = "git branch -D"
                /\ log[i + 2].arg = name
                /\ log[i + 1].ok => add.arg \notin WorktreePaths(World)
                /\ log[i + 2].ok => name \notin branches
                /\ pc = "returned"

\* the rollback ran, its removal failed and the flow still returned normally
C1_Witness ==
    /\ flow = "new_feature"
    /\ pc = "returned"
    /\ \E i \in DOMAIN log :
        /\ log[i] = Ev("template", <<>>, FALSE)
        /\ ~log[i + 1].ok
        /\ log[i + 2].op = "git branch -D"

\* C2: when the agent exits with a non-zero status in the new-feature flow,
\* the program does not terminate and the review step is offered next.
C2_AgentFailureNotFatal ==
    \A i \in DOMAIN log :
        (flow = "new_feature" /\ log[i].op = "agent" /\ ~log[i].ok) =>
            /\ pc # "exit_err"
            /\ Len(log) > i
            /\ IsPrompt(log[i + 1], "nf_lazygit")

OptionalSteps ==
    {"git rev-parse", "git checkout", "git merge --no-ff",
     "git worktree remove", "git worktree remove --force",
     "git branch -d", "git branch -D", "lazygit launch", "lazygit"}

\* C3: in every flow, when a merge, a worktree removal (forced or not), a
\* branch deletion (forced or not) or the review tool fails, the menu loop
\* is not left: the program does not end with the error.
C3_OptionalFailureContinues ==
    (log # <<>> /\ Last(log).op \in OptionalSteps /\ ~Last(log).ok) => pc # "exit_err"

\* the commands of the merge_branch call that starts with the rev-parse at i
MergeEnd(i) ==
    CHOOSE j \in i..Len(log) :
        /\ \A k \in (i + 1)..j : log[k].op \in {"git checkout", "git merge --no-ff"}
        /\ j < Len(log) => log[j + 1].op \notin {"git checkout", "git merge --no-ff"}
MergeTrace(i) == SubSeq(log, i, MergeEnd(i))
Merged(t) == \E k \in DOMAIN t : t[k].op = "git merge --no-ff"

\* C4: merge_branch called while the root is on a named branch B other than
\* the target checks B out again after the merge step, whether the merge
\* succeeded or failed.
C4_OriginalBranchRestored ==
    \A i \in DOMAIN log :
        (/\ log[i].op = "git rev-parse"
         /\ log[i].arg # <<>>
         /\ log[i].arg # Config.merge_target
         /\ Merged(MergeTrace(i))) =>
            LET t == MergeTrace(i)
            IN  Last(t).op = "git checkout" /\ Last(t).arg = log[i].arg

\* every command of the call after the rev-parse succeeded, the merge included
Successful(t) ==
    /\ \E k \in DOMAIN t : t[k].op = "git merge --no-ff"
    /\ \A k \in DOMAIN t : k > 1 => t[k].ok

\* C5: a successful merge_branch reads the current branch, checks the target
\* out exactly when the current branch is not the target, merges the source
\* with --no-ff, and checks the original branch out again exactly when it was
\* a branch other than the target; on the target already, no checkout at all.
C5_MergeOrder ==
    \A i \in DOMAIN log :
        (log[i].op = "git rev-parse" /\ Successful(MergeTrace(i))) =>
            LET t == MergeTrace(i)
                B == log[i].arg
                target == Config.merge_target
                ops == [k \in DOMAIN t |-> t[k].op]
            IN  IF B = target
                THEN ops = <<"git rev-parse", "git merge --no-ff">>
                ELSE /\ Len(t) >= 3
                     /\ t[2].op = "git checkout" /\ t[2].arg = target
                     /\ t[3].op = "git merge --no-ff"
                     /\ IF B = <<>> THEN Len(t) = 3
                        ELSE /\ Len(t) = 4
                             /\ t[4].op = "git checkout" /\ t[4].arg = B

\* a merge from another branch: four commands, the last restores the branch
C5_Witness ==
    \E i \in DOMAIN log :
        /\ log[i].op = "git rev-parse"
        /\ log[i].arg = DEV
        /\ Successful(MergeTrace(i))
        /\ Len(MergeTrace(i)) = 4
        /\ head = Some(DEV)

EmptyInput(e) == e.op = "answer" /\ e.ok /\ trim(e.arg) = <<>>

\* C6: in the new-feature flow, a branch name or a feature description that
\* is empty once trimmed ends the flow at once: the flow returns, nothing
\* but prompts and answers has happened, and the directories, the branches,
\* the worktrees and the files are as they were.
C6_EmptyInputNoEffect ==
    [][(/\ pc \in {"nf_branch_name", "nf_feature"}
        /\ Len(log') > Len(log)
        /\ EmptyInput(log'[Len(log) + 1])) =>
            /\ pc' = "returned"
            /\ UNCHANGED <<branches, worktrees, head, fs>>
            /\ \A i \in DOMAIN log' : log'[i].op \in {"prompt", "answer"}]_vars

\* a blank feature description was given after a branch name
C6_Witness ==
    /\ flow = "new_feature"
    /\ pc = "returned"
    /\ Len(log) = 4
    /\ IsPrompt(log[3], "nf_feature")
    /\ EmptyInput(log[4])

\* the step in which the new-feature flow aborts at the worktree creation
AbortAtCreation ==
    /\ pc = "nf_base"
    /\ pc' = "exit_err"
    /\ \/ Last(log').op = "exists" /\ Last(log').ok
       \/ Last(log').op = "git worktree add" /\ ~Last(log').ok

\* C7, as stated: when the new-feature flow aborts at the worktree creation
\* the directories and the repository are as before the flow.
C7_NothingCreated ==
    [][AbortAtCreation => UNCHANGED <<branches, worktrees, head, fs>>]_vars

\* C7, amended: when the new-feature flow aborts at the worktree creation the
\* repository is as before the flow, and the only directory the flow may
\* have created is the worktree base directory.
C7_OnlyBaseCreated ==
    [][AbortAtCreation =>
        LET base == worktree_base(Repo, Config).val
        IN  /\ UNCHANGED <<branches, worktrees, head>>
            /\ \/ fs' = fs
               \/ base \notin DOMAIN fs /\ fs' = (base :> NoFiles) @@ fs]_vars

\* git worktree add failed and the base directory is there, with no worktree
C7_Witness ==
    /\ flow = "new_feature"
    /\ pc = "exit_err"
    /\ Last(log).op = "git worktree add"
    /\ ~Last(log).ok
    /\ worktree_base(Repo, Config).val \in DOMAIN fs
    /\ \A p \in WorktreePaths(World) : ~starts_with(p, worktree_base(Repo, Config).val)

CachedTemplateMissing(e) ==
    e.op = "exists" /\ ~e.ok /\ ends_with(e.arg, TEMPLATE_FILENAME)

C9_ResumeOffersRemainingSteps ==
    \A i \in DOMAIN log :
        (flow = "start_existing" /\ log[i].op = "agent" /\ log[i].ok) =>
            Len(log) > i /\ log[i + 1].op = "prompt"

\* C9, amended: the resumed flow offers the edit and runs the agent on the
\* cached template, and then returns to the menu loop: it offers no review,
\* no merge, no removal and no branch deletion.
C9_ResumeRunsAgentOnly ==
    flow = "start_existing" =>
        \A i \in DOMAIN log :
            /\ log[i].op = "prompt" => log[i].arg \in {<<"se_pick">>, <<"se_edit">>}
            /\ log[i].op \notin OptionalSteps
            /\ (log[i].op = "agent" /\ log[i].ok) => pc = "returned" /\ i = Len(log)

C9_Witness ==
    /\ flow = "start_existing"
    /\ pc = "returned"
    /\ log # <<>>
    /\ Last(log).op = "agent"
    /\ Last(log).ok

Asked(id) == {j \in DOMAIN log : IsPrompt(log[j], id)}
Declined(i) == Len(log) >= i /\ log[i] = Ev("answer", <<"n">>, TRUE)

\* the forced-retry protocol of the attempt at i: forcePrompt is offered
\* exactly once after a failure and never after a success, and once it is
\* declined no forced command is run and the flow goes on (continued)
RetryProtocol(i, forcePrompt, forcedOp, continued) ==
    IF log[i].ok
    THEN Asked(forcePrompt) = {}
    ELSE /\ Asked(forcePrompt) = {i + 1}
         /\ Declined(i + 2) =>
                /\ NoneAfter(i, {forcedOp})
                /\ continued

\* C10: in the new-feature flow and in the delete flow, a failed removal or
\* branch deletion is followed by one forced-retry prompt; when it is
\* declined the step is skipped and the flow goes on (to the branch
\* deletion prompt after a removal, to its normal end after a branch
\* deletion); a successful attempt is followed by no forced-retry prompt.
C10_ForcedRetry ==
    LET nf == flow = "new_feature"
        BranchOffered(k) ==
            IF nf THEN Len(log) >= k /\ IsPrompt(log[k], "nf_delete_branch")
            ELSE IF starts_with(AnswerTo("de_pick"), DETACHED)
            THEN Len(log) < k /\ pc = "returned"
            ELSE Len(log) >= k /\ IsPrompt(log[k], "de_branch")
        Ended(k) == Len(log) < k /\ pc = "returned"
    IN  flow \in {"new_feature", "delete"} =>
            \A i \in DOMAIN log :
                /\ log[i].op = "git worktree remove" =>
                       RetryProtocol(i, IF nf THEN "nf_force_remove" ELSE "de_force",
                                     "git worktree remove --force", BranchOffered(i + 3))
                /\ log[i].op = "git branch -d" =>
                       RetryProtocol(i, IF nf THEN "nf_force_branch" ELSE "de_force_branch",
                                     "git branch -D", Ended(i + 3))

\* in the new-feature flow the removal failed, the forced retry was declined
\* and the branch deletion is offered
C10_Witness ==
    /\ flow = "new_feature"
    /\ pc = "nf_delete_branch"
    /\ \E i \in DOMAIN log :
        /\ log[i].op = "git worktree remove"
        /\ ~log[i].ok
        /\ IsPrompt(log[i + 1], "nf_force_remove")
        /\ Declined(i + 2)

\* C11: in the new-feature flow and in the delete flow, the branch deletion
\* is offered also when the removal of the worktree is declined (in the
\* delete flow: when the worktree has a branch).
C11_BranchOfferedAfterDecline ==
    \A i \in DOMAIN log :
        /\ (IsPrompt(log[i], "nf_remove") /\ Declined(i + 1)) =>
               Len(log) >= i + 2 /\ IsPrompt(log[i + 2], "nf_delete_branch")
        /\ (/\ IsPrompt(log[i], "de_confirm")
            /\ Declined(i + 1)
            /\ ~starts_with(AnswerTo("de_pick"), DETACHED)) =>
               Len(log) >= i + 2 /\ IsPrompt(log[i + 2], "de_branch")

\* the command at i directly follows the acceptance of one of the prompts
Accepted(i, prompts) ==
    /\ i >= 3
    /\ log[i - 1] = Ev("answer", <<"y">>, TRUE)
    /\ log[i - 2].op = "prompt"
    /\ log[i - 2].arg[1] \in prompts

\* every merge, removal and branch deletion of the log follows its own
\* confirmation, the two commands of the rollback excepted
ConfirmedFirst ==
    \A i \in DOMAIN log :
        /\ log[i].op = "git worktree remove" => Accepted(i, {"nf_remove", "de_confirm"})
        /\ log[i].op = "git worktree remove --force" =>
               \/ Accepted(i, {"nf_force_remove", "de_force"})
               \/ i >= 2 /\ log[i - 1] = Ev("template", <<>>, FALSE)
        /\ log[i].op = "git branch -d" => Accepted(i, {"nf_delete_branch", "de_branch"})
        /\ log[i].op = "git branch -D" =>
               \/ Accepted(i, {"nf_force_branch", "de_force_branch"})
               \/ /\ i >= 3
                  /\ log[i - 2] = Ev("template", <<>>, FALSE)
                  /\ log[i - 1].op = "git worktree remove --force"
        /\ log[i].op = "git rev-parse" => Accepted(i, {"nf_merge", "me_confirm"})
        /\ log[i].op \in {"git merge --no-ff", "git checkout"} =>
               \E j \in 1..(i - 1) : log[j].op = "git rev-parse" /\ MergeEnd(j) >= i

\* C12: a merge, a removal or a branch deletion is run only directly after
\* the user accepted the confirmation of that step (a forced one after its
\* own forced-retry confirmation), the rollback for a missing template
\* excepted; a step in which a confirmation is declined leaves the worktrees
\* and the branches as they are.
C12_OnlyAfterConfirmation ==
    [][/\ ConfirmedFirst'
       /\ (Len(log') > Len(log) /\ log'[Len(log) + 1] = Ev("answer", <<"n">>, TRUE)) =>
              UNCHANGED <<branches, worktrees>>]_vars

\* a forced branch deletion ran after its forced-retry confirmation
C12_Witness ==
    \E i \in DOMAIN log :
        /\ log[i].op = "git branch -D"
        /\ log[i].ok
        /\ Accepted(i, {"de_force_branch"})

\* C13: the root of the repository is never an item of a list of worktrees
\* offered for selection (start, merge, delete, review).
C13_RootNeverListed ==
    pc \in {"se_pick", "me_pick", "de_pick", "vi_pick"} =>
        \A i \in DOMAIN loc.listing : loc.listing[i].path # Repo.root

\* C14: a listing of N records that each hold a worktree line parses to
\* exactly N worktrees, with the paths in the order of the input, whatever
\* the order of the lines of a record, the number of blank lines between
\* two records and the number of blank lines after the last one.
HasLine(order, kind) == \E k \in DOMAIN order : order[k] = kind
C14_OneWorktreePerRecord ==
    (/\ flow = "parse"
     /\ pc = "done"
     /\ \A i \in DOMAIN loc.input.records : HasLine(loc.input.records[i], "w")) =>
        /\ Len(loc.output) = Len(loc.input.records)
        /\ \A i \in DOMAIN loc.output : loc.output[i].path = PathOf(i)

\* two records, the branch ahead of the path in the last, which no blank
\* line follows, and two blank lines between them
C14_Witness ==
    /\ flow = "parse"
    /\ pc = "done"
    /\ loc.input = [records |-> <<(<<"w", "b">>), (<<"b", "l", "w">>)>>,
                    lead |-> 1, sep |-> 2, trail |-> 0]
    /\ Len(loc.output) = 2

Kept(c) == is_ascii_alphanumeric(to_ascii_lowercase(c)) \/ c = "_"
KeptOf(text) == SelectSeq(text, Kept)

\* C15, as stated: sanitize_name returns the fallback exactly when the input
\* has no alphanumeric character, no "-" and no "_".
C15_FallbackIffNothingKept ==
    (flow = "sanitize" /\ pc = "done") =>
        (loc.output = FEATURE <=>
            ~\E i \in DOMAIN loc.input : Kept(loc.input[i]) \/ loc.input[i] = "-")

\* C15, amended: sanitize_name returns the fallback for every input without
\* an ASCII alphanumeric character and without "_" (an input made of "-"
\* and other characters included); for every other input it returns a slug
\* whose characters other than "-" are the alphanumeric and "_" characters
\* of the input, lower-cased, in their order.
C15_FallbackIffNoSlugCharacter ==
    (flow = "sanitize" /\ pc = "done") =>
        IF KeptOf(loc.input) = <<>>
        THEN loc.output = FEATURE
        ELSE KeptOf(loc.output) =
                 [i \in DOMAIN KeptOf(loc.input) |-> to_ascii_lowercase(KeptOf(loc.input)[i])]

\* an input of dashes and other characters only gives the fallback
C15_Witness ==
    /\ flow = "sanitize"
    /\ pc = "done"
    /\ loc.input = <<"-", "!", "-">>
    /\ loc.output = FEATURE

\* C16: sanitize_name returns a text that is not empty, holds only
\* characters of [a-z0-9_-] and neither starts nor ends with "-".
C16_SlugShape ==
    (flow = "sanitize" /\ pc = "done") =>
        /\ loc.output # <<>>
        /\ \A i \in DOMAIN loc.output :
               \/ IsLower(loc.output[i])
               \/ loc.output[i] \in DigitChars
               \/ loc.output[i] \in {"_", "-"}
        /\ loc.output[1] # "-"
        /\ loc.output[Len(loc.output)] # "-"

\* an input with upper case, other characters and dashes at both ends
C16_Witness ==
    /\ flow = "sanitize"
    /\ pc = "done"
    /\ loc.input = <<"-", "B", "!", "-">>
    /\ loc.output = <<"b">>

\* the text holds no ${...} with at least one character between the braces
NoPlaceholder(content) ==
    ~\E i, j \in DOMAIN content :
        /\ j >= i + 3
        /\ content[i] = "$"
        /\ content[i + 1] = "{"
        /\ content[j] = "}"
        /\ \A k \in (i + 2)..(j - 1) : content[k] # "}"

\* C17: rendering a template without placeholder, with no automatic
\* variable, asks for nothing and returns the content as it is.
C17_NoPlaceholderIdentity ==
    (/\ flow = "render"
     /\ pc = "done"
     /\ DOMAIN loc.input.auto = {}
     /\ NoPlaceholder(Flat(loc.input.pieces))) =>
        /\ loc.output.prompts = <<>>
        /\ loc.output.rendered = Flat(loc.input.pieces)

\* a text with an opening that is never closed and an empty pair of braces
C17_Witness ==
    /\ flow = "render"
    /\ pc = "done"
    /\ loc.input = [pieces |-> <<Piece(<<"$", "{", "}">>, None), Piece(<<"x">>, None), OpenPiece>>,
                    auto |-> <<>>]
    /\ loc.output.rendered = <<"$", "{", "}", "x", "$", "{", "q">>

\* what is expected of a template made of text and closed placeholders: the
\* keys to ask for, in the order of their first occurrence
RECURSIVE ExpectedPrompts(_, _, _)
ExpectedPrompts(pieces, auto_keys, found) ==
    IF pieces = <<>> THEN found
    ELSE LET key == Head(pieces).key
         IN  IF /\ key # None
                /\ Unwrap(key) # <<>>
                /\ Unwrap(key) \notin auto_keys
                /\ ~\E i \in DOMAIN found : found[i] = Unwrap(key)
             THEN ExpectedPrompts(Tail(pieces), auto_keys, Append(found, Unwrap(key)))
             ELSE ExpectedPrompts(Tail(pieces), auto_keys, found)

\* and its rendering: each placeholder with a value replaced by the value
RECURSIVE ExpectedRender(_, _)
ExpectedRender(pieces, values) ==
    IF pieces = <<>> THEN <<>>
    ELSE LET key == Head(pieces).key
         IN  (IF key # None /\ Unwrap(key) \in DOMAIN values
              THEN values[Unwrap(key)] ELSE Head(pieces).text)
                 \o ExpectedRender(Tail(pieces), values)

Closed(pieces) == \A i \in DOMAIN pieces : pieces[i] # OpenPiece

\* C18: render_template asks once for each distinct non-empty key that is
\* not an automatic variable, in the order of first occurrence, never for
\* an automatic variable, and replaces every occurrence of an automatic or
\* asked key by its value.
C18_PromptsAndSubstitution ==
    (flow = "render" /\ pc = "done") =>
        LET prompts == loc.output.prompts
            auto == loc.input.auto
        IN  /\ \A i, j \in DOMAIN prompts : prompts[i] = prompts[j] => i = j
            /\ \A i \in DOMAIN prompts : prompts[i] # <<>> /\ prompts[i] \notin DOMAIN auto
            /\ Closed(loc.input.pieces) =>
                   /\ prompts = ExpectedPrompts(loc.input.pieces, DOMAIN auto, <<>>)
                   /\ loc.output.rendered =
                          ExpectedRender(loc.input.pieces, loc.output.answers @@ auto)

\* the scenario: Task: ${feature}\nOwner: ${who}
C18_Witness ==
    /\ flow = "render"
    /\ pc = "done"
    /\ loc.input = Scenario
    /\ loc.output.prompts = <<KEY_WHO>>
    /\ loc.output.answers[KEY_WHO] = ALICE
    /\ loc.output.rendered =
           <<"T", "a", "s", "k", ":", " ">> \o ADD_LOGIN
               \o <<"\n", "O", "w", "n", "e", "r", ":", " ">> \o ALICE

\* the lines of an exclude file (None: no file)
LinesOf(file) == IF file = None THEN <<>> ELSE lines(Unwrap(file))
EqualLines(file, texts) == {i \in DOMAIN LinesOf(file) : LinesOf(file)[i] \in texts}
Entries == {TEMPLATE_FILENAME, DOT_SLASH \o TEMPLATE_FILENAME}

\* C19, as stated: after one or more registrations the exclude file is the
\* one given when a line of it was the filename or ./filename, and
\* otherwise holds exactly one line equal to the filename.
C19_OneEntryVerbatim ==
    (flow = "register" /\ pc = "done") =>
        IF EqualLines(loc.input, Entries) # {}
        THEN fs[SANDBOX].exclude = loc.input
        ELSE Cardinality(EqualLines(fs[SANDBOX].exclude, {TEMPLATE_FILENAME})) = 1

TrimmedEntries(file) ==
    {i \in DOMAIN LinesOf(file) : trim(LinesOf(file)[i]) \in Entries}

\* C19, amended: the lines are compared without their surrounding white
\* space.  After one or more registrations the exclude file is the one
\* given when a line of it, so trimmed, was the filename or ./filename;
\* otherwise it is the one given with one line added, the filename, and
\* that line is its only entry.
C19_OneEntryTrimmed ==
    (flow = "register" /\ pc = "done") =>
        IF TrimmedEntries(loc.input) # {}
        THEN fs[SANDBOX].exclude = loc.input
        ELSE /\ Cardinality(TrimmedEntries(fs[SANDBOX].exclude)) = 1
             /\ Cardinality(EqualLines(fs[SANDBOX].exclude, {TEMPLATE_FILENAME})) = 1
             /\ LinesOf(fs[SANDBOX].exclude) = Append(LinesOf(loc.input), TEMPLATE_FILENAME)

\* registered three times in a file whose last line had no newline
C19_Witness ==
    /\ flow = "register"
    /\ pc = "done"
    /\ loc.output = 3
    /\ loc.input = Some(<<"x">>)
    /\ fs[SANDBOX].exclude = Some(<<"x", "\n">> \o TEMPLATE_FILENAME \o <<"\n">>)

\* what the claim expects of choose_template on the candidates, given what
\* the user does when asked: pick is the place of the item selected
ChoiceAsClaimed(candidates, pick, out) ==
    IF candidates = {}
    THEN out = [ok |-> TRUE, asked |-> FALSE, val |-> None]
    ELSE IF Cardinality(candidates) = 1
    THEN out = [ok |-> TRUE, asked |-> FALSE, val |-> Some(CHOOSE c \in candidates : TRUE)]
    ELSE /\ out.asked
         /\ pick.ok => /\ out.ok
                       /\ out.val = IF pick.val = None THEN None
                                    ELSE Some(Sorted(candidates)[Unwrap(pick.val) + 1])

\* C20: choose_template returns no template, and no error, when there is no
\* candidate; the candidate, without asking, when there is one; and with
\* two or more it asks and returns the candidate selected, or no template
\* when the selection is cancelled.
C20_ChoiceByCount ==
    (flow = "choose" /\ pc = "done" /\ loc.input.store.readable) =>
        ChoiceAsClaimed(Candidates(loc.input.store), loc.input.pick, loc.output)

\* C21: the available templates are the files directly in the project
\* template directory, sorted, when that directory exists and holds a file,
\* and otherwise the files directly in the global template directory,
\* sorted; files of the two directories never appear together.
Increasing(paths) ==
    \A i, j \in DOMAIN paths : i < j => TextLess(paths[i], paths[j])
ProjectFiles(store) == FilesIn(Join(Repo.root, PROJECT_TEMPLATES_DIR), store.project)
GlobalFiles(store) == FilesIn(TemplatesDir, store.global)
C21_ProjectElseGlobal ==
    (flow = "available" /\ pc = "done" /\ loc.output.ok) =>
        LET paths == loc.output.val
            listed == {paths[i] : i \in DOMAIN paths}
        IN  /\ Increasing(paths)
            /\ listed = IF ProjectFiles(loc.input) # {}
                        THEN ProjectFiles(loc.input)
                        ELSE GlobalFiles(loc.input)

\* both directories hold files, and the project's were returned
C21_Witness ==
    /\ flow = "available"
    /\ pc = "done"
    /\ loc.output.ok
    /\ Cardinality(ProjectFiles(loc.input)) >= 2
    /\ GlobalFiles(loc.input) # {}
    /\ Len(loc.output.val) = Cardinality(ProjectFiles(loc.input))

\* C22: the agent command ends with the template content as one extra
\* argument exactly when no configured argument contains {template} or
\* {template_content}; in both cases the environment holds the template
\* path, the worktree path, the branch name and the template content.
NamesTemplate(arg) == contains(arg, PH_TEMPLATE) \/ contains(arg, PH_TEMPLATE_CONTENT)
C22_TrailingTemplateArgument ==
    (flow = "launch" /\ pc = "done") =>
        LET in == loc.input
            out == loc.output
            configured == Len(in.agent_args)
            referenced == \E i \in 1..configured : NamesTemplate(in.agent_args[i])
        IN  /\ Len(out.args) = configured + (IF referenced THEN 0 ELSE 1)
            /\ ~referenced => out.args[configured + 1] = in.template_content
            /\ out.env = [AGENT_TEMPLATE_PATH |-> Join(in.worktree_dir, TEMPLATE_FILENAME),
                          AGENT_WORKTREE_PATH |-> in.worktree_dir,
                          AGENT_BRANCH_NAME |-> in.branch,
                          AGENT_TEMPLATE_CONTENT |-> in.template_content]

\* a command with configured arguments none of which names the template
C22_Witness ==
    /\ flow = "launch"
    /\ pc = "done"
    /\ Len(loc.input.agent_args) = 2
    /\ \A i \in 1..2 : ~NamesTemplate(loc.input.agent_args[i])
    /\ Len(loc.output.args) = 3
    /\ loc.output.args[3] = loc.input.template_content

\* C28: in an agent argument only the placeholders written in the
\* configured argument are replaced: each argument of the command is the
\* configured one with its own placeholders replaced in one pass, and a
\* placeholder brought in by the template path, the worktree path or the
\* branch name stays as it is.
RECURSIVE ExpandOnce(_, _)
ExpandOnce(arg, values) ==
    IF arg = <<>> THEN <<>>
    ELSE IF \E ph \in DOMAIN values : starts_with(arg, ph)
    THEN LET ph == CHOOSE x \in DOMAIN values : starts_with(arg, x)
         IN  values[ph] \o ExpandOnce(Drop(arg, Len(ph)), values)
    ELSE <<arg[1]>> \o ExpandOnce(Tail(arg), values)
LaunchValues ==
    (PH_TEMPLATE :> Join(loc.input.worktree_dir, TEMPLATE_FILENAME))
        @@ (PH_WORKTREE :> loc.input.worktree_dir)
        @@ (PH_BRANCH :> loc.input.branch)
        @@ (PH_TEMPLATE_CONTENT :> loc.input.template_content)
C28_NoSecondExpansion ==
    (flow = "launch" /\ pc = "done") =>
        \A i \in DOMAIN loc.input.agent_args :
            loc.output.args[i] = ExpandOnce(loc.input.agent_args[i], LaunchValues)

\* C23: the worktrees parsed are the records that hold a worktree line, in
\* order, and the branch and the lock flag of each come from the lines of
\* its own record only: a record without a worktree line gives no worktree
\* and leaves no branch and no lock flag to a later one.
PathRecords ==
    SelectSeq([i \in DOMAIN loc.input.records |-> i],
              LAMBDA i : HasLine(loc.input.records[i], "w"))
C23_RecordsIndependent ==
    (flow = "parse" /\ pc = "done") =>
        /\ Len(loc.output) = Len(PathRecords)
        /\ \A k \in DOMAIN loc.output :
               LET i == PathRecords[k]
                   order == loc.input.records[i]
               IN  /\ loc.output[k].path = PathOf(i)
                   /\ loc.output[k].branch =
                          IF HasLine(order, "b") THEN Some(BranchOf(i)) ELSE None
                   /\ loc.output[k].locked = HasLine(order, "l")

\* C24: in a run of the new-feature flow the agent is launched only after
\* the worktree was created, then a template chosen, then its rendered copy
\* written into the worktree, then registered in the exclude list; the
\* review, merge, worktree-removal and branch-deletion prompts come only
\* after the agent has run, in that order, and each at most once.
Done(i, op) == log[i].op = op /\ log[i].ok
Prepared(i) ==
    \E d \in 1..(i - 1) :
        /\ Done(d, "exclude")
        /\ \E c \in 1..(d - 1) :
               /\ Done(c, "write template")
               /\ \E b \in 1..(c - 1) :
                      /\ Done(b, "template")
                      /\ \E a \in 1..(b - 1) : Done(a, "git worktree add")
ClosingPrompts == <<"nf_lazygit", "nf_merge", "nf_remove", "nf_delete_branch">>
C24_StepsInOrder ==
    flow = "new_feature" =>
        /\ \A i \in DOMAIN log :
               log[i].op \in {"agent launch", "agent"} => Prepared(i)
        /\ \A k \in DOMAIN ClosingPrompts :
               /\ Cardinality(Asked(ClosingPrompts[k])) <= 1
               /\ \A j \in Asked(ClosingPrompts[k]) :
                      /\ \E i \in 1..(j - 1) : Done(i, "agent")
                      /\ \A m \in DOMAIN ClosingPrompts :
                             m < k => \A n \in Asked(ClosingPrompts[m]) : n < j

\* a run that went through the four prompts
C24_Witness ==
    /\ flow = "new_feature"
    /\ \A k \in DOMAIN ClosingPrompts : Asked(ClosingPrompts[k]) # {}
    /\ \E i \in DOMAIN log : Done(i, "agent") /\ Prepared(i)

\* C25, as stated: the slug is the input with its ASCII alphanumerics
\* lower-cased, "-" and "_" kept, and every maximal run of other characters
\* turned into exactly one "-", also next to a "-" of the input; then the
\* dashes at both ends are trimmed (and an empty result is the fallback).
RECURSIVE Concat(_)
Concat(texts) == IF texts = <<>> THEN <<>> ELSE Head(texts) \o Concat(Tail(texts))
Verbatim(c) == Kept(c) \/ c = "-"
Finished(slug) ==
    IF trim_matches(slug, "-") = <<>> THEN FEATURE ELSE trim_matches(slug, "-")
C25_EveryRunOneDash ==
    (flow = "sanitize" /\ pc = "done") =>
        loc.output =
            Finished(Concat([i \in DOMAIN loc.input |->
                IF Verbatim(loc.input[i]) THEN <<to_ascii_lowercase(loc.input[i])>>
                ELSE IF i > 1 /\ ~Verbatim(loc.input[i - 1]) THEN <<>>
                ELSE <<"-">>]))

\* C25, amended: as above, except that a run of other characters that
\* directly follows a "-" of the input adds nothing (`a-!b` gives `a-b`); a
\* run directly followed by a "-" of the input still gives its own "-"
\* (`a!-b` gives `a--b`).
C25_RunAfterDashDropped ==
    (flow = "sanitize" /\ pc = "done") =>
        loc.output =
            Finished(Concat([i \in DOMAIN loc.input |->
                IF Verbatim(loc.input[i]) THEN <<to_ascii_lowercase(loc.input[i])>>
                ELSE IF i > 1 /\ ~Kept(loc.input[i - 1]) THEN <<>>
                ELSE <<"-">>]))

\* a run of other characters directly after a dash of the input
C25_Witness ==
    /\ flow = "sanitize"
    /\ pc = "done"
    /\ loc.input = <<"a", "-", "!", "B">>
    /\ loc.output = <<"a", "-", "b">>

\* C26: when the new-feature flow ends with an error after the worktree
\* was created and before the agent is launched (the templates cannot be
\* listed or selected, the template cannot be read, rendered or written,
\* the exclude registration or the editor fails), nothing is removed: the
\* worktree and its branch are still there.  Before the agent is launched
\* a removal or a deletion follows only a template choice that gave no
\* template.
Undoing ==
    {"git worktree remove", "git worktree remove --force", "git branch -d", "git branch -D"}
Launched(i) == \E j \in 1..i : log[j].op \in {"agent launch", "agent"}
FailedBeforeLaunch ==
    /\ flow = "new_feature"
    /\ pc = "exit_err"
    /\ \E a \in DOMAIN log : Done(a, "git worktree add")
    /\ ~Launched(Len(log))
C26_NoRollbackOnError ==
    /\ FailedBeforeLaunch =>
           \A a \in DOMAIN log :
               Done(a, "git worktree add") =>
                   /\ NoneAfter(a, Undoing)
                   /\ \E k \in DOMAIN worktrees :
                          /\ worktrees[k].path = log[a].arg
                          /\ IsSome(worktrees[k].branch)
                          /\ Unwrap(worktrees[k].branch) \in branches
    /\ flow = "new_feature" =>
           \A i \in DOMAIN log :
               (log[i].op \in Undoing /\ ~Launched(i)) =>
                   \E j \in 1..(i - 1) : log[j] = Ev("template", <<>>, FALSE)

\* the editor failed, after the worktree was created
C26_Witness ==
    /\ FailedBeforeLaunch
    /\ Last(log).op = "editor"
    /\ ~Last(log).ok

\* C27: the directory of a new worktree is the base directory joined with
\* the slug of the branch name, so two branch names with the same slug
\* target the same directory.  When that directory exists the flow ends
\* with an error before git is asked to create anything: no branch and no
\* worktree is added.  No two worktrees share a directory.
TargetDir == Join(worktree_base(Repo, Config).val, sanitize_name(loc.branch_name))
TargetTaken == pc = "nf_base" /\ TargetDir \in DOMAIN fs
C27_SameSlugRefused ==
    [][/\ TargetTaken =>
            /\ pc' = "exit_err"
            /\ UNCHANGED <<branches, worktrees>>
            /\ \A i \in DOMAIN log' : log'[i].op # "git worktree add"
       /\ \A i, j \in DOMAIN worktrees' :
            worktrees'[i].path = worktrees'[j].path => i = j]_vars

\* the second flow, for a branch name other than the one of the worktree
\* that holds the directory, was refused
C27_Witness ==
    /\ flow = "new_feature"
    /\ pc = "exit_err"
    /\ Last(log).op = "exists"
    /\ Last(log).ok
    /\ \E k \in DOMAIN worktrees :
           /\ worktrees[k].path = Last(log).arg
           /\ worktrees[k].branch \notin {None, Some(AnswerTo("nf_branch_name"))}
           /\ sanitize_name(Unwrap(worktrees[k].branch))
                  = sanitize_name(trim(AnswerTo("nf_branch_name")))

\* C29: rendering is one pass over the template: the keys asked for are
\* keys written in the template, and a value, automatic or typed, that
\* holds a placeholder itself is inserted as it is: the placeholder in it
\* is neither replaced nor asked for.
PieceKeys(pieces) ==
    {Unwrap(pieces[k].key) : k \in {j \in DOMAIN pieces : pieces[j].key # None}}
ValueWithPlaceholder ==
    LET values == loc.output.answers @@ loc.input.auto
    IN  \E key \in DOMAIN values \cap PieceKeys(loc.input.pieces) :
            ~NoPlaceholder(values[key])
C29_SinglePass ==
    (flow = "render" /\ pc = "done" /\ Closed(loc.input.pieces) /\ ValueWithPlaceholder) =>
        /\ \A i \in DOMAIN loc.output.prompts :
               loc.output.prompts[i] \in PieceKeys(loc.input.pieces)
        /\ loc.output.rendered =
               ExpectedRender(loc.input.pieces, loc.output.answers @@ loc.input.auto)

\* ${w} is given the value ${u}, while u is given the value v
C29_Witness ==
    /\ flow = "render"
    /\ pc = "done"
    /\ loc.input.pieces = <<Piece(<<"$", "{", "w", "}">>, Some(KEY_W)),
                            Piece(<<"$", "{", "u", "}">>, Some(KEY_U))>>
    /\ loc.output.answers = (KEY_W :> <<"$", "{", "u", "}">>) @@ (KEY_U :> <<"v">>)
    /\ loc.output.rendered = <<"$", "{", "u", "}", "v">>

\* C30: merge_branch called while HEAD of the root is detached checks the
\* target out, merges, and runs no checkout after the merge: after a
\* successful merge the root is on the target, and the detached position
\* is not restored.
Detached(i) == log[i] = Ev("git rev-parse", <<>>, TRUE)
C30_DetachedEndsOnTarget ==
    \A i \in DOMAIN log :
        (Detached(i) /\ Merged(MergeTrace(i))) =>
            LET t == MergeTrace(i)
            IN  /\ Len(t) = 3
                /\ t[2] = Ev("git checkout", Config.merge_target, TRUE)
                /\ t[3].op = "git merge --no-ff"
                /\ t[3].ok => head = Some(Config.merge_target)

\* a successful merge from a detached HEAD
C30_Witness ==
    \E i \in DOMAIN log :
        /\ Detached(i)
        /\ Successful(MergeTrace(i))
        /\ head = Some(Config.merge_target)

====
